---------------------------- MODULE Spec2Model ----------------------------
(* Model of metadata_validator.py: the date normaliser                      *)
(* (normalize_date_format), the metadata block parser and writer           *)
(* (extract_metadata_block, update_metadata_block), the changelog section  *)
(* and version (extract_changelog_section_from_file,                       *)
(* extract_latest_version_from_changelog), the changelog preference and    *)
(* consistency check (determine_changelog_preference,                      *)
(* check_changelog_consistency), validate_metadata, the single file mode   *)
(* of main with its prompts (confirm_date_interpretation, prompt_field),   *)
(* the changelog date functions (normalize_changelog_dates,                *)
(* validate_changelog_date_format) and the threads of TimeoutInput.        *)
(*                                                                          *)
(* A Python str is a sequence of one-character strings, so that regular     *)
(* expressions, str.strip, str.startswith and str.zfill are computed on the *)
(* characters.  Python's None is the one-element sequence None, which is no *)
(* str because "<None>" is not a character.                                 *)
EXTENDS Integers, Sequences, FiniteSets, TLC

VARIABLES
    date_str,   \* the argument of normalize_date_format
    ret,        \* what the call returned
    ret2,       \* what a second call, on ret.result, returned
    pc,         \* position of the date scenario
    lines,      \* the argument of extract_metadata_block
    blk,        \* what extract_metadata_block returned
    bpc,        \* position of the parser and writer scenarios
    updates,    \* the updates given to update_metadata_block
    new_lines,  \* what update_metadata_block returned
    blk2,       \* what extract_metadata_block returned for new_lines
    new_lines2, \* what a second update_metadata_block, without updates, returned
    file_lines, \* the lines of the file at file_path
    section,    \* what extract_changelog_section_from_file returned
    content,    \* the text of the changelog file, None when there is no such file
    latest,     \* what extract_latest_version_from_changelog returned
    filename,   \* os.path.basename(file_path)
    metadata_version,   \* the Version field given to check_changelog_consistency
    today,      \* datetime.now().strftime('%Y-%m-%d')
    chk,        \* what check_changelog_consistency computed, returned and printed
    cpc,        \* position of the changelog scenarios
    meta,       \* the metadata given to validate_metadata
    errors,     \* what validate_metadata returned
    vpc,        \* position of the validation scenario
    md_file,    \* the lines of the file at md_path
    flags,      \* auto_mode, manual_mode and auto_update of the run
    clock,      \* the date of the system clock, as datetime.now() formats it
    script,     \* the lines the user enters, one per prompt, in order
    asked,      \* the number of prompts shown so far
    loc,        \* the local variables of main
    confirmed,  \* the date fields whose interpretation the user confirmed in this run
    mpc,        \* position of main
    runs,       \* the number of runs of the validator started so far
    writes,     \* the number of times the file was rewritten
    exit_code,  \* the exit status of the last run, -1 while it runs
    changelog_file, \* the lines of the file at changelog_path
    auto_fix,       \* the auto_fix argument of normalize_changelog_dates
    old_content,    \* the lines normalize_changelog_dates read
    changes_made,   \* <<b>> once normalize_changelog_dates returned b
    date_format_ok, \* <<b>> once validate_changelog_date_format returned b
    fpc,            \* position of the changelog date scenario
    timeout_inputs, \* the TimeoutInput objects, one per prompt, in order
    stdin,          \* the lines typed and not yet read
    eof,            \* the user closed the input
    typed           \* the number of the last prompt the user answered

vars == <<date_str, ret, ret2, pc, lines, blk, bpc,
          updates, new_lines, blk2, new_lines2,
          file_lines, section, content, latest, filename, metadata_version,
          today, chk, cpc, meta, errors, vpc,
          md_file, flags, clock, script, asked, loc, confirmed, mpc, runs,
          writes, exit_code,
          changelog_file, auto_fix, old_content, changes_made, date_format_ok, fpc,
          timeout_inputs, stdin, eof, typed>>

dateVars == <<date_str, ret, ret2, pc>>
blockVars == <<lines, blk, bpc>>
rewriteVars == <<updates, new_lines, blk2, new_lines2>>
changelogVars == <<file_lines, section, content, latest, filename,
                   metadata_version, today, chk, cpc>>
validateVars == <<meta, errors, vpc>>
runVars == <<md_file, flags, clock, script, asked, loc, confirmed, mpc, runs,
             writes, exit_code>>
fixVars == <<changelog_file, auto_fix, old_content, changes_made, date_format_ok, fpc>>
promptVars == <<timeout_inputs, stdin, eof, typed>>
programVars == <<runVars, fixVars, promptVars>>

(***************************************************************************)
(* Characters and strings                                                  *)
(***************************************************************************)
None == <<"<None>">>

DigitSeq == <<"0", "1", "2", "3", "4", "5", "6", "7", "8", "9">>

\* \d of the re module, on the ASCII digits
IsDigit(c) == c \in {"0", "1", "2", "3", "4", "5", "6", "7", "8", "9"}

\* \s of the re module and the characters str.strip removes
IsSpace(c) == c \in {" ", "\t", "\n"}

DigitVal(c) == (CHOOSE i \in 1..10 : DigitSeq[i] = c) - 1

\* int(s) of a string of digits
RECURSIVE ToInt(_)
ToInt(s) ==
    IF s = <<>> THEN 0
    ELSE 10 * ToInt(SubSeq(s, 1, Len(s) - 1)) + DigitVal(s[Len(s)])

\* str(n) for n >= 0
RECURSIVE ToStr(_)
ToStr(n) ==
    IF n < 10 THEN <<DigitSeq[n + 1]>>
    ELSE ToStr(n \div 10) \o <<DigitSeq[(n % 10) + 1]>>

\* the component used as matched, without str.zfill
zfill_none(s) == s

\* s.zfill(2): pad with '0' on the left up to width 2
zfill(s) ==
    IF Len(s) = 0 THEN <<"0", "0">>
    ELSE IF Len(s) = 1 THEN <<"0">> \o s
    ELSE s

\* s starts with the characters p at (1-based) position pos
HasAt(s, pos, p) ==
    /\ pos + Len(p) - 1 <= Len(s)
    /\ \A i \in 1..Len(p) : s[pos + i - 1] = p[i]

(***************************************************************************)
(* Regular expressions.  A pattern is a sequence of items:                 *)
(*   "d"   (\d{lo,hi}), a capturing group of lo..hi digits, greedy         *)
(*   "lit" one literal character                                           *)
(*   "opt" an optional literal character (,?), greedy                      *)
(*   "ws"  \s+, greedy                                                     *)
(*   "alt" (w1|w2|...), a capturing alternation of words, tried in order   *)
(* MatchFrom is re.fullmatch: the whole string must be consumed, and the   *)
(* alternatives are tried in the backtracking order of the re module.      *)
(***************************************************************************)
D(lo, hi) == [k |-> "d", lo |-> lo, hi |-> hi, c |-> "", alts |-> <<>>]
L(c) == [k |-> "lit", lo |-> 1, hi |-> 1, c |-> c, alts |-> <<>>]
Opt(c) == [k |-> "opt", lo |-> 0, hi |-> 1, c |-> c, alts |-> <<>>]
Ws == [k |-> "ws", lo |-> 1, hi |-> 1, c |-> "", alts |-> <<>>]
Alt(words) == [k |-> "alt", lo |-> 1, hi |-> 1, c |-> "", alts |-> words]

NoMatch == [ok |-> FALSE, groups |-> <<>>]

\* the number of leading digits of s[pos..], at most max
RECURSIVE DigitRun(_, _, _)
DigitRun(s, pos, max) ==
    IF max > 0 /\ pos <= Len(s) /\ IsDigit(s[pos])
    THEN 1 + DigitRun(s, pos + 1, max - 1)
    ELSE 0

\* the number of leading whitespace characters of s[pos..]
RECURSIVE SpaceRun(_, _)
SpaceRun(s, pos) ==
    IF pos <= Len(s) /\ IsSpace(s[pos]) THEN 1 + SpaceRun(s, pos + 1) ELSE 0

\* re.match: the pattern may stop before the end of the string
AtEnd_match(s, pos) == TRUE

\* re.fullmatch: the pattern must end where the string ends
AtEnd(s, pos) == pos = Len(s) + 1

RECURSIVE MatchFrom(_, _, _, _)
RECURSIVE TryCount(_, _, _, _, _)
RECURSIVE TryAlts(_, _, _, _, _)

\* items[k..] against s[pos..]: the first full match in backtracking order
MatchFrom(items, k, s, pos) ==
    IF k > Len(items) THEN [ok |-> AtEnd(s, pos), groups |-> <<>>]
    ELSE LET it == items[k] IN
         CASE it.k = "lit" ->
                IF pos <= Len(s) /\ s[pos] = it.c
                THEN MatchFrom(items, k + 1, s, pos + 1)
                ELSE NoMatch
           [] it.k = "opt" ->
                LET taken == IF pos <= Len(s) /\ s[pos] = it.c
                             THEN MatchFrom(items, k + 1, s, pos + 1)
                             ELSE NoMatch
                IN  IF taken.ok THEN taken ELSE MatchFrom(items, k + 1, s, pos)
           [] it.k = "d" ->
                TryCount(items, k, s, pos, DigitRun(s, pos, it.hi))
           [] it.k = "ws" ->
                TryCount(items, k, s, pos, SpaceRun(s, pos))
           [] it.k = "alt" ->
                TryAlts(items, k, s, pos, 1)

\* a greedy repetition: n characters first, then n-1, ... down to items[k].lo
TryCount(items, k, s, pos, n) ==
    IF n < items[k].lo THEN NoMatch
    ELSE LET rest == MatchFrom(items, k + 1, s, pos + n) IN
         IF rest.ok
         THEN IF items[k].k = "d"
              THEN [ok |-> TRUE,
                    groups |-> <<SubSeq(s, pos, pos + n - 1)>> \o rest.groups]
              ELSE rest
         ELSE TryCount(items, k, s, pos, n - 1)

\* an alternation: the words in the order written
TryAlts(items, k, s, pos, a) ==
    IF a > Len(items[k].alts) THEN NoMatch
    ELSE LET w == items[k].alts[a]
             rest == IF HasAt(s, pos, w)
                     THEN MatchFrom(items, k + 1, s, pos + Len(w))
                     ELSE NoMatch
         IN  IF rest.ok
             THEN [ok |-> TRUE, groups |-> <<w>> \o rest.groups]
             ELSE TryAlts(items, k, s, pos, a + 1)

fullmatch(items, s) == MatchFrom(items, 1, s, 1)

(***************************************************************************)
(* normalize_date_format                                                   *)
(***************************************************************************)
\* ISO_DATE_PATTERN, r'\d{4}-\d{2}-\d{2}'
ISO_DATE_PATTERN == <<D(4, 4), L("-"), D(2, 2), L("-"), D(2, 2)>>

MonthAbbr ==
    <<<<"J", "a", "n">>,
      <<"F", "e", "b">>,
      <<"M", "a", "r">>,
      <<"A", "p", "r">>,
      <<"M", "a", "y">>,
      <<"J", "u", "n">>,
      <<"J", "u", "l">>,
      <<"A", "u", "g">>,
      <<"S", "e", "p">>,
      <<"O", "c", "t">>,
      <<"N", "o", "v">>,
      <<"D", "e", "c">>>>

MonthFull ==
    <<<<"J", "a", "n", "u", "a", "r", "y">>,
      <<"F", "e", "b", "r", "u", "a", "r", "y">>,
      <<"M", "a", "r", "c", "h">>,
      <<"A", "p", "r", "i", "l">>,
      <<"M", "a", "y">>,
      <<"J", "u", "n", "e">>,
      <<"J", "u", "l", "y">>,
      <<"A", "u", "g", "u", "s", "t">>,
      <<"S", "e", "p", "t", "e", "m", "b", "e", "r">>,
      <<"O", "c", "t", "o", "b", "e", "r">>,
      <<"N", "o", "v", "e", "m", "b", "e", "r">>,
      <<"D", "e", "c", "e", "m", "b", "e", "r">>>>

\* One entry of the list `patterns`: the regular expression (re: its source
\* text, items: its structure), the name the comment above it gives it, and
\* its lambda: the groups holding year, month and day, the century the
\* lambda prefixes to a two-digit year, whether it zfills month and day, and
\* the month names it looks the month up in (none for a numeric month).
Pat(re, name, items, y, m, d, century, fill, names) ==
    [re |-> re, name |-> name, items |-> items, y |-> y, m |-> m, d |-> d,
     century |-> century, fill |-> fill, names |-> names]

Num3(a, sep, b, c) == <<D(a[1], a[2]), L(sep), D(b[1], b[2]), L(sep), D(c[1], c[2])>>

Century20 == <<"2", "0">>

patterns == <<
    Pat("(\\d{1,2})/(\\d{1,2})/(\\d{4})", "MM/DD/YYYY",
        Num3(<<1, 2>>, "/", <<1, 2>>, <<4, 4>>), 3, 1, 2, <<>>, TRUE, <<>>),
    Pat("(\\d{1,2})/(\\d{1,2})/(\\d{2})", "MM/DD/YY",
        Num3(<<1, 2>>, "/", <<1, 2>>, <<2, 2>>), 3, 1, 2, Century20, TRUE, <<>>),
    Pat("(\\d{1,2})/(\\d{1,2})/(\\d{4})", "DD/MM/YYYY",
        Num3(<<1, 2>>, "/", <<1, 2>>, <<4, 4>>), 3, 2, 1, <<>>, TRUE, <<>>),
    Pat("(\\d{1,2})/(\\d{1,2})/(\\d{2})", "DD/MM/YY",
        Num3(<<1, 2>>, "/", <<1, 2>>, <<2, 2>>), 3, 2, 1, Century20, TRUE, <<>>),
    Pat("(\\d{1,2})-(\\d{1,2})-(\\d{4})", "MM-DD-YYYY",
        Num3(<<1, 2>>, "-", <<1, 2>>, <<4, 4>>), 3, 1, 2, <<>>, TRUE, <<>>),
    Pat("(\\d{1,2})-(\\d{1,2})-(\\d{2})", "MM-DD-YY",
        Num3(<<1, 2>>, "-", <<1, 2>>, <<2, 2>>), 3, 1, 2, Century20, TRUE, <<>>),
    Pat("(\\d{1,2})-(\\d{1,2})-(\\d{4})", "DD-MM-YYYY",
        Num3(<<1, 2>>, "-", <<1, 2>>, <<4, 4>>), 3, 2, 1, <<>>, TRUE, <<>>),
    Pat("(\\d{1,2})-(\\d{1,2})-(\\d{2})", "DD-MM-YY",
        Num3(<<1, 2>>, "-", <<1, 2>>, <<2, 2>>), 3, 2, 1, Century20, TRUE, <<>>),
    Pat("(\\d{4})/(\\d{1,2})/(\\d{1,2})", "YYYY/MM/DD",
        Num3(<<4, 4>>, "/", <<1, 2>>, <<1, 2>>), 1, 2, 3, <<>>, TRUE, <<>>),
    Pat("(\\d{4})\\.(\\d{1,2})\\.(\\d{1,2})", "YYYY.MM.DD",
        Num3(<<4, 4>>, ".", <<1, 2>>, <<1, 2>>), 1, 2, 3, <<>>, TRUE, <<>>),
    Pat("(\\d{2})\\.(\\d{1,2})\\.(\\d{1,2})", "YY.MM.DD",
        Num3(<<2, 2>>, ".", <<1, 2>>, <<1, 2>>), 1, 2, 3, Century20, TRUE, <<>>),
    Pat("(\\d{1,2})\\.(\\d{1,2})\\.(\\d{4})", "MM.DD.YYYY",
        Num3(<<1, 2>>, ".", <<1, 2>>, <<4, 4>>), 3, 1, 2, <<>>, TRUE, <<>>),
    Pat("(\\d{1,2})\\.(\\d{1,2})\\.(\\d{2})", "MM.DD.YY",
        Num3(<<1, 2>>, ".", <<1, 2>>, <<2, 2>>), 3, 1, 2, Century20, TRUE, <<>>),
    Pat("(\\d{1,2})\\.(\\d{1,2})\\.(\\d{4})", "DD.MM.YYYY",
        Num3(<<1, 2>>, ".", <<1, 2>>, <<4, 4>>), 3, 2, 1, <<>>, TRUE, <<>>),
    Pat("(\\d{1,2})\\.(\\d{1,2})\\.(\\d{2})", "DD.MM.YY",
        Num3(<<1, 2>>, ".", <<1, 2>>, <<2, 2>>), 3, 2, 1, Century20, TRUE, <<>>),
    Pat("(\\d{4})(\\d{2})(\\d{2})", "YYYYMMDD",
        <<D(4, 4), D(2, 2), D(2, 2)>>, 1, 2, 3, <<>>, FALSE, <<>>),
    Pat("(\\d{2})(\\d{2})(\\d{2})", "YYMMDD",
        <<D(2, 2), D(2, 2), D(2, 2)>>, 1, 2, 3, Century20, FALSE, <<>>),
    Pat("(Jan|Feb|Mar|Apr|May|Jun|Jul|Aug|Sep|Oct|Nov|Dec)\\s+(\\d{1,2}),?\\s+(\\d{4})",
        "Mon DD, YYYY",
        <<Alt(MonthAbbr), Ws, D(1, 2), Opt(","), Ws, D(4, 4)>>,
        3, 1, 2, <<>>, TRUE, MonthAbbr),
    Pat("(January|February|March|April|May|June|July|August|September|October|November|December)\\s+(\\d{1,2}),?\\s+(\\d{4})",
        "Month DD, YYYY",
        <<Alt(MonthFull), Ws, D(1, 2), Opt(","), Ws, D(4, 4)>>,
        3, 1, 2, <<>>, TRUE, MonthFull),
    Pat("(\\d{1,2})-(Jan|Feb|Mar|Apr|May|Jun|Jul|Aug|Sep|Oct|Nov|Dec)-(\\d{4})",
        "DD-Mon-YYYY",
        <<D(1, 2), L("-"), Alt(MonthAbbr), L("-"), D(4, 4)>>,
        3, 2, 1, <<>>, TRUE, MonthAbbr),
    Pat("(\\d{1,2})-(January|February|March|April|May|June|July|August|September|October|November|December)-(\\d{4})",
        "DD-Month-YYYY",
        <<D(1, 2), L("-"), Alt(MonthFull), L("-"), D(4, 4)>>,
        3, 2, 1, <<>>, TRUE, MonthFull) >>

\* list.index(w) + 1
IndexOf(words, w) == CHOOSE i \in 1..Len(words) : words[i] = w

\* a lambda with the month and day groups exchanged
Formatter_swapped(p, g) ==
    LET year == p.century \o g[p.y]
        month == IF p.names # <<>> THEN zfill(ToStr(IndexOf(p.names, g[p.m])))
                 ELSE zfill(g[p.d])
        day == IF p.names # <<>> THEN zfill(g[p.d]) ELSE zfill(g[p.m])
    IN  year \o <<"-">> \o month \o <<"-">> \o day

\* the lambda of a pattern, applied to the groups of its match
Formatter(p, g) ==
    LET year == p.century \o g[p.y]
        month == IF p.names # <<>> THEN zfill(ToStr(IndexOf(p.names, g[p.m])))
                 ELSE IF p.fill THEN zfill(g[p.m])
                 ELSE g[p.m]
        day == IF p.fill THEN zfill(g[p.d]) ELSE g[p.d]
    IN  year \o <<"-">> \o month \o <<"-">> \o day

\* calendar: datetime's leap years and days per month
IsLeap(y) == (y % 4 = 0) /\ ((y % 100 # 0) \/ (y % 400 = 0))

DaysInMonth(y, m) ==
    IF m = 2 THEN (IF IsLeap(y) THEN 29 ELSE 28)
    ELSE IF m \in {4, 6, 9, 11} THEN 30
    ELSE 31

\* datetime(y, m, d) raises no ValueError
ValidDate(y, m, d) ==
    /\ y >= 1
    /\ m \in 1..12
    /\ d >= 1
    /\ d <= DaysInMonth(y, m)

\* datetime.strptime(s, '%Y-%m-%d') raises no ValueError: s is four digits,
\* a month 1..12 and a day 1..31 of one or two digits, joined by '-', and
\* the date exists
strptime_ok(s) ==
    LET m == fullmatch(<<D(4, 4), L("-"), D(1, 2), L("-"), D(1, 2)>>, s)
    IN  /\ m.ok
        /\ ValidDate(ToInt(m.groups[1]), ToInt(m.groups[2]), ToInt(m.groups[3]))

\* The value of one return statement.  idx is not part of the Python tuple:
\* it records which entry of `patterns` returned (0: none did).
Ret(result, changed, tag, idx) ==
    [result |-> result, changed |-> changed, tag |-> tag, idx |-> idx]

\* `if not date_str: return None, False, None`
EmptyReturn == Ret(None, FALSE, "<None>", 0)

\* the ISO return reporting a change
IsoReturn_changed(s) == Ret(s, TRUE, "YYYY-MM-DD", 0)

\* `return date_str, False, 'YYYY-MM-DD'`
IsoReturn(s) == Ret(s, FALSE, "YYYY-MM-DD", 0)

\* `return date_str, False, 'unknown'`
UnknownReturn(s) == Ret(s, FALSE, "unknown", 0)

\* `return normalized, True, pattern`
MatchReturn(normalized, i) == Ret(normalized, TRUE, patterns[i].re, i)

\* entry i accepted on the match alone, without the strptime check
Accepts_unvalidated(i, s) == fullmatch(patterns[i].items, s).ok

\* entry i of the for loop: match, format, validate; return or continue
Accepts(i, s) ==
    LET m == fullmatch(patterns[i].items, s)
    IN  m.ok /\ strptime_ok(Formatter(patterns[i], m.groups))

Formatted(i, s) == Formatter(patterns[i], fullmatch(patterns[i].items, s).groups)

\* the for loop leaving at the first entry that matches: on ValueError it
\* returns the input as unknown instead of continuing
RECURSIVE TryPatterns_first(_, _)
TryPatterns_first(s, i) ==
    IF i > Len(patterns) THEN UnknownReturn(s)
    ELSE IF Accepts(i, s) THEN MatchReturn(Formatted(i, s), i)
    ELSE IF fullmatch(patterns[i].items, s).ok THEN UnknownReturn(s)
    ELSE TryPatterns_first(s, i + 1)

\* the for loop over `patterns`, from entry i on
RECURSIVE TryPatterns(_, _)
TryPatterns(s, i) ==
    IF i > Len(patterns) THEN UnknownReturn(s)
    ELSE IF Accepts(i, s) THEN MatchReturn(Formatted(i, s), i)
    ELSE TryPatterns(s, i + 1)

normalize_date_format(s) ==
    IF s = None \/ s = <<>> THEN EmptyReturn
    ELSE IF fullmatch(ISO_DATE_PATTERN, s).ok THEN IsoReturn(s)
    ELSE TryPatterns(s, 1)

(***************************************************************************)
(* extract_metadata_block                                                  *)
(***************************************************************************)
\* block_start = block_end = None
NoneIdx == -1

\* the index of the first non-whitespace character of s from pos on
RECURSIVE LStripFrom(_, _)
LStripFrom(s, pos) ==
    IF pos <= Len(s) /\ IsSpace(s[pos]) THEN LStripFrom(s, pos + 1) ELSE pos

\* the index of the last non-whitespace character of s up to pos
RECURSIVE RStripTo(_, _)
RStripTo(s, pos) ==
    IF pos >= 1 /\ IsSpace(s[pos]) THEN RStripTo(s, pos - 1) ELSE pos

\* s.strip()
strip(s) == SubSeq(s, LStripFrom(s, 1), RStripTo(s, Len(s)))

\* s.startswith(p)
startswith(s, p) == HasAt(s, 1, p)

RuleMarker == <<"-", "-", "-">>
ItemPrefix == <<"-", " ", "*", "*">>
KeyEnd == <<":", "*", "*">>
KeyEndSpace == <<":", "*", "*", " ">>

\* `line.strip().startswith('---')`, t the stripped line
IsRuleLine(t) == startswith(t, RuleMarker)

\* re.match(r'- \*\*(.+?):\*\* (.+)', t): the key is the shortest non-empty
\* text after '- **' that is followed by ':** ' and at least one more
\* character; the value is the rest of the line
KeyLens(t) ==
    {n \in 1..Len(t) :
        /\ HasAt(t, 5 + n, KeyEndSpace)
        /\ 5 + n + Len(KeyEndSpace) <= Len(t)}

ValueMatch(t) ==
    IF startswith(t, ItemPrefix) /\ KeyLens(t) # {}
    THEN LET n == CHOOSE n \in KeyLens(t) : \A o \in KeyLens(t) : n <= o
         IN  [ok |-> TRUE,
              groups |-> <<SubSeq(t, 5, 4 + n),
                           SubSeq(t, 5 + n + Len(KeyEndSpace), Len(t))>>]
    ELSE NoMatch

\* re.match(r'- \*\*(.+?):\*\*$', t): '- **', a non-empty key, ':**' and
\* the end of the line
EmptyMatch(t) ==
    IF /\ startswith(t, ItemPrefix)
       /\ Len(t) >= Len(ItemPrefix) + 1 + Len(KeyEnd)
       /\ HasAt(t, Len(t) - Len(KeyEnd) + 1, KeyEnd)
    THEN [ok |-> TRUE, groups |-> <<SubSeq(t, 5, Len(t) - Len(KeyEnd))>>]
    ELSE NoMatch

\* metadata[key] = value
DictSet(d, key, value) ==
    [x \in (DOMAIN d) \cup {key} |-> IF x = key THEN value ELSE d[x]]

\* the local variables before the loop
ParserStart ==
    [in_block |-> FALSE, metadata |-> <<>>,
     block_start |-> NoneIdx, block_end |-> NoneIdx]

\* the effect of a rule line: record the index, toggle in_block
Toggle(st, idx) ==
    [st EXCEPT !.block_start = IF st.in_block THEN @ ELSE idx,
               !.block_end = IF st.in_block THEN idx ELSE @,
               !.in_block = ~@]

\* the effect of a '- **' line inside the block
Collect(st, t) ==
    IF ValueMatch(t).ok
    THEN [st EXCEPT !.metadata =
            DictSet(@, strip(ValueMatch(t).groups[1]), strip(ValueMatch(t).groups[2]))]
    ELSE IF EmptyMatch(t).ok
    THEN [st EXCEPT !.metadata = DictSet(@, strip(EmptyMatch(t).groups[1]), <<>>)]
    ELSE st

\* one iteration of the for loop: line number idx (from 0)
ParseLine(st, idx, line) ==
    LET t == strip(line) IN
    IF IsRuleLine(t) THEN Toggle(st, idx)
    ELSE IF st.in_block /\ startswith(t, ItemPrefix) THEN Collect(st, t)
    ELSE st

\* the local variables after the first n lines
RECURSIVE ParserAfter(_, _)
ParserAfter(ls, n) ==
    IF n = 0 THEN ParserStart
    ELSE ParseLine(ParserAfter(ls, n - 1), n - 1, ls[n])

extract_metadata_block(ls) ==
    LET st == ParserAfter(ls, Len(ls))
    IN  [metadata |-> st.metadata, block_start |-> st.block_start,
         block_end |-> st.block_end]

(***************************************************************************)
(* The date scenario: one call of normalize_date_format on an input, then  *)
(* a second call on the string the first one returned.                     *)
(***************************************************************************)
\* numeric components run over 0..MaxNum
MaxNum == 32

\* the components of a numeric triple: one digit, or two digits
NumStrs == {ToStr(n) : n \in 0..9} \cup {zfill(ToStr(n)) : n \in 0..MaxNum}

Seps == {"/", "-", "."}

Years4 ==
    {<<"2", "0", "2", "4">>,
     <<"2", "0", "2", "5">>}

Years2 ==
    {<<"2", "4">>,
     <<"2", "5">>}

\* one leap year written with four digits, one common year with two
WideYears ==
    {<<"2", "0", "2", "4">>,
     <<"2", "5">>}

Join3(a, s1, b, s2, c) == a \o <<s1>> \o b \o <<s2>> \o c

\* A<sep>B<sep>YYYY and A<sep>B<sep>YY
Triples ==
    {Join3(a, sep, b, sep, y) :
        a \in NumStrs, b \in NumStrs, sep \in Seps, y \in WideYears}

SmallNums ==
    {<<"0">>,
     <<"2">>,
     <<"4">>,
     <<"0", "2">>,
     <<"0", "4">>,
     <<"1", "2">>,
     <<"1", "3">>,
     <<"2", "9">>,
     <<"3", "0">>,
     <<"3", "1">>,
     <<"3", "2">>}

OddYears ==
    {<<"2", "9">>,
     <<"3", "1">>,
     <<"0", "0", "0", "0">>,
     <<"0", "0", "0", "1">>,
     <<"1", "9", "0", "0">>,
     <<"2", "0", "0", "0">>,
     <<"0", "0">>,
     <<"9", "9">>}

\* triples of further years, 0, 1, 1900 and 2000 among them (leap-year
\* rule, MINYEAR), and triples whose two separators differ
OddTriples ==
    {Join3(a, sep, b, sep, y) :
        a \in SmallNums, b \in SmallNums, sep \in Seps,
        y \in OddYears \cup Years4 \cup Years2}
    \cup
    {Join3(a, s1, b, s2, y) :
        a \in {<<"3">>, <<"0", "3">>}, b \in {<<"0", "4">>},
        s1 \in Seps \cup {" "}, s2 \in Seps \cup {" "}, y \in Years4 \cup Years2}

\* YYYY<sep>A<sep>B; with '-' and two-digit A, B these are the ISO-shaped inputs
YearFirst ==
    {Join3(y, sep, a, sep, b) :
        y \in Years4 \cup {<<"0", "0", "0", "0">>}, sep \in Seps,
        a \in SmallNums, b \in SmallNums}

\* YYYYMMDD and YYMMDD
Compact ==
    {y \o a \o b :
        y \in Years4 \cup Years2, a \in SmallNums, b \in SmallNums}

MonthWords ==
    {<<"J", "a", "n">>,
     <<"F", "e", "b">>,
     <<"M", "a", "y">>,
     <<"S", "e", "p">>,
     <<"S", "e", "p", "t">>,
     <<"f", "e", "b">>,
     <<"J", "a", "n", "u", "a", "r", "y">>,
     <<"F", "e", "b", "r", "u", "a", "r", "y">>,
     <<"S", "e", "p", "t", "e", "m", "b", "e", "r">>}

\* "Mon D, YYYY" and "D-Mon-YYYY", with and without the comma
Named ==
    {mon \o sp \o d \o comma \o sp2 \o y :
        mon \in MonthWords, sp \in {<<" ">>, <<" ", " ">>},
        d \in {<<"5">>, <<"2", "9">>, <<"3", "1">>, <<"0">>},
        comma \in {<<>>, <<",">>}, sp2 \in {<<>>, <<" ">>}, y \in Years4}
    \cup
    {d \o <<"-">> \o mon \o <<"-">> \o y :
        mon \in MonthWords, d \in SmallNums, y \in Years4 \cup Years2}

PadBase ==
    {<<"0", "3", "/", "0", "4", "/", "2", "0", "2", "5">>,
     <<"3", ".", "4", ".", "2", "5">>,
     <<"2", "0", "2", "5", "-", "0", "3", "-", "0", "4">>,
     <<"2", "0", "2", "5", "0", "3", "0", "4">>,
     <<"M", "a", "y", " ", "5", ",", " ", "2", "0", "2", "5">>,
     <<"5", "-", "M", "a", "y", "-", "2", "0", "2", "5">>}

\* a supported shape with extra leading or trailing characters
Padded ==
    {pre \o base \o post :
        base \in PadBase,
        pre \in {<<>>, <<" ">>, <<"x">>, <<"0">>},
        post \in {<<>>, <<" ">>, <<"\n">>, <<"x">>, <<"0">>}}

Junk ==
    {<<>>,
     <<"s", "o", "m", "e", "t", "i", "m", "e">>,
     <<"2", "0", "2", "5">>,
     <<"2", "0", "2", "5", "-", "0", "3">>,
     <<"2", "0", "2", "5", "-", "3", "-", "4">>,
     <<"0", "3", "/", "0", "4">>,
     <<"/", "/">>,
     <<"0", "3", "/", "0", "4", "/", "2", "0", "2", "5", "5">>,
     <<"1", "2", "3", "/", "0", "4", "/", "2", "0", "2", "5">>}

Inputs == Triples \cup OddTriples \cup YearFirst \cup Compact \cup Named
          \cup Padded \cup Junk

NoRet == Ret(None, FALSE, "<none yet>", 0)
NoBlk == [metadata |-> <<>>, block_start |-> NoneIdx, block_end |-> NoneIdx]

InitDate ==
    /\ date_str \in Inputs
    /\ ret = NoRet
    /\ ret2 = NoRet
    /\ pc = "input"

IdleDate ==
    /\ date_str = <<>>
    /\ ret = NoRet
    /\ ret2 = NoRet
    /\ pc = "idle"

IdleBlock ==
    /\ lines = <<>>
    /\ blk = NoBlk
    /\ bpc = "idle"

\* nothing of the writer scenario has happened
NoLines == <<<<"<", "n", "o", "n", "e", " ", "y", "e", "t", ">">>>>

IdleRewrite ==
    /\ updates = <<>>
    /\ new_lines = NoLines
    /\ blk2 = NoBlk
    /\ new_lines2 = NoLines

\* nothing of the changelog scenarios has happened
NotYet == <<"<", "n", "o", "n", "e", " ", "y", "e", "t", ">">>

NoChk ==
    [preference |-> "<none yet>", separate_version |-> NotYet,
     embedded_changelog_content |-> NotYet, embedded_version |-> NotYet,
     consistent |-> FALSE, printed |-> <<>>]

IdleChangelog ==
    /\ file_lines = <<>>
    /\ section = NotYet
    /\ content = NotYet
    /\ latest = NotYet
    /\ filename = <<>>
    /\ metadata_version = <<>>
    /\ today = <<>>
    /\ chk = NoChk
    /\ cpc = "idle"

IdleValidate ==
    /\ meta = <<>>
    /\ errors = <<>>
    /\ vpc = "idle"

\* the local variables of main before it has parsed the file
NoLoc ==
    [metadata |-> <<>>, block_start |-> NoneIdx, block_end |-> NoneIdx,
     updates |-> <<>>, doc_title_default |-> <<"<None>">>]

IdleRun ==
    /\ md_file = <<>>
    /\ flags = [auto_mode |-> FALSE, manual_mode |-> FALSE, auto_update |-> FALSE]
    /\ clock = <<>>
    /\ script = <<>>
    /\ asked = 0
    /\ loc = NoLoc
    /\ confirmed = {}
    /\ mpc = "idle"
    /\ runs = 0
    /\ writes = 0
    /\ exit_code = -1

IdleFix ==
    /\ changelog_file = <<>>
    /\ auto_fix = FALSE
    /\ old_content = <<>>
    /\ changes_made = <<>>
    /\ date_format_ok = <<>>
    /\ fpc = "idle"

IdlePrompt ==
    /\ timeout_inputs = <<>>
    /\ stdin = <<>>
    /\ eof = FALSE
    /\ typed = 0

IdleProgram == IdleRun /\ IdleFix /\ IdlePrompt

Init == InitDate /\ IdleBlock /\ IdleRewrite /\ IdleChangelog /\ IdleValidate /\ IdleProgram

\* normalize_date_format(date_str)
Normalize ==
    /\ pc = "input"
    /\ ret' = normalize_date_format(date_str)
    /\ pc' = "called"
    /\ UNCHANGED <<date_str, ret2, blockVars, rewriteVars, changelogVars, validateVars, programVars>>

\* normalize_date_format(result of the first call)
NormalizeAgain ==
    /\ pc = "called"
    /\ ret2' = normalize_date_format(ret.result)
    /\ pc' = "again"
    /\ UNCHANGED <<date_str, ret, blockVars, rewriteVars, changelogVars, validateVars, programVars>>

Next == Normalize \/ NormalizeAgain

Spec == Init /\ [][Next]_vars

(***************************************************************************)
(* The parser scenario: one call of extract_metadata_block on a document.  *)
(***************************************************************************)
\* documents have at most MaxLines lines
MaxLines == 4

LineKinds ==
    {<<"-", "-", "-">>,
     <<"-", "-", "-", "-">>,
     <<"-", "-", "-", "|", "-", "-", "-">>,
     <<"-", " ", "*", "*", "A", ":", "*", "*", " ", "1">>,
     <<"-", " ", "*", "*", "B", ":", "*", "*">>,
     <<" ", " ", "-", " ", "*", "*", "A", ":", "*", "*", " ", " ", "2", " ">>,
     <<"-", " ", "*", "*", "C", ":", "*", "*", "x">>,
     <<"x">>}

\* the document of the parser example: x, ---, - **A:** 1, - **B:**, ---, y
ExampleDoc ==
    <<<<"x">>,
      <<"-", "-", "-">>,
      <<"-", " ", "*", "*", "A", ":", "*", "*", " ", "1">>,
      <<"-", " ", "*", "*", "B", ":", "*", "*">>,
      <<"-", "-", "-">>,
      <<"y">>>>

\* a document with two blocks, and one with a third rule line
LongDocs ==
    {<<<<"-", "-", "-">>,
      <<"-", " ", "*", "*", "A", ":", "*", "*", " ", "1">>,
      <<"-", "-", "-">>,
      <<"x">>,
      <<"-", "-", "-">>,
      <<"-", " ", "*", "*", "B", ":", "*", "*">>,
      <<"-", "-", "-">>>>,
     <<<<"x">>,
      <<"-", "-", "-">>,
      <<"-", " ", "*", "*", "A", ":", "*", "*", " ", "1">>,
      <<"-", "-", "-">>,
      <<"x">>,
      <<"-", "-", "-">>,
      <<"-", " ", "*", "*", "B", ":", "*", "*">>>>}

RECURSIVE DocsOfLen(_)
DocsOfLen(n) ==
    IF n = 0 THEN {<<>>}
    ELSE {Append(d, l) : d \in DocsOfLen(n - 1), l \in LineKinds}

Docs == UNION {DocsOfLen(n) : n \in 0..MaxLines} \cup {ExampleDoc} \cup LongDocs

InitBlock ==
    /\ IdleDate
    /\ IdleRewrite
    /\ IdleChangelog
    /\ IdleValidate
    /\ IdleProgram
    /\ lines \in Docs
    /\ blk = NoBlk
    /\ bpc = "input"

\* extract_metadata_block(lines)
Extract ==
    /\ bpc = "input"
    /\ blk' = extract_metadata_block(lines)
    /\ bpc' = "parsed"
    /\ UNCHANGED <<dateVars, lines, rewriteVars, changelogVars, validateVars, programVars>>

NextBlock == Extract

SpecBlock == InitBlock /\ [][NextBlock]_vars

(***************************************************************************)
(* Properties of normalize_date_format                                     *)
(***************************************************************************)
Called == pc = "called"

AllDigits(s) == \A i \in 1..Len(s) : IsDigit(s[i])

\* The readings of s as A<sep>B<sep>Y: A and B of one or two digits, Y of
\* digits, the same separator twice.  There is at most one.
TripleParts(s) ==
    {[a |-> SubSeq(s, 1, i - 1), b |-> SubSeq(s, i + 1, j - 1),
      y |-> SubSeq(s, j + 1, Len(s)), sep |-> s[i]] :
        <<i, j>> \in {<<i, j>> \in (2..3) \X (4..6) :
                        /\ j < Len(s)
                        /\ j - i \in 2..3
                        /\ s[i] \in Seps
                        /\ s[j] = s[i]
                        /\ AllDigits(SubSeq(s, 1, i - 1))
                        /\ AllDigits(SubSeq(s, i + 1, j - 1))
                        /\ AllDigits(SubSeq(s, j + 1, Len(s)))}}

\* a one- or two-digit component written with two digits
TwoDigits(a) == IF Len(a) = 1 THEN <<"0">> \o a ELSE a

\* the text Y-M-D
Dashed(y, m, d) == y \o <<"-">> \o m \o <<"-">> \o d

\* year, month, day given as digit strings denote a date of the calendar
IsDate(y, m, d) == ValidDate(ToInt(y), ToInt(m), ToInt(d))

\* the entries of `patterns` that accept s
Accepting(s) == {i \in 1..Len(patterns) : Accepts(i, s)}

\* C1: a triple A<sep>B<sep>YYYY returns YYYY-AA-BB, changed, when the
\* month-first reading is a date; YYYY-BB-AA, changed, when it is not and
\* the day-first reading is; and whenever some entry of the list matches
\* the whole input and formats to a valid date, the call returns the
\* formatted date of the first such entry.
C1_MonthFirstThenDayFirst ==
    Called =>
        /\ \A t \in TripleParts(date_str) :
              Len(t.y) = 4 =>
                /\ IsDate(t.y, t.a, t.b) =>
                      /\ ret.changed
                      /\ ret.result = Dashed(t.y, TwoDigits(t.a), TwoDigits(t.b))
                /\ (~IsDate(t.y, t.a, t.b) /\ IsDate(t.y, t.b, t.a)) =>
                      /\ ret.changed
                      /\ ret.result = Dashed(t.y, TwoDigits(t.b), TwoDigits(t.a))
        /\ LET acc == Accepting(date_str)
               first == CHOOSE i \in acc : \A j \in acc : i <= j
           IN  acc # {} =>
                  /\ ret.changed
                  /\ ret.idx = first
                  /\ ret.result = Formatted(first, date_str)

\* '25/12/2024' fell through the month-first entry to the day-first one
C1_Witness ==
    /\ pc = "called"
    /\ date_str = <<"2", "5", "/", "1", "2", "/", "2", "0", "2", "4">>
    /\ ret.changed
    /\ ret.result = <<"2", "0", "2", "4", "-", "1", "2", "-", "2", "5">>

\* the year-first reading of A.B.YY: year 20AA, month B, day YY
YearFirstReading(t) ==
    /\ t.sep = "."
    /\ Len(t.a) = 2
    /\ IsDate(Century20 \o t.a, t.b, t.y)

\* C2 as stated: every A<sep>B<sep>YY whose month-first reading (year
\* 20YY) is a date returns 20YY-AA-BB, changed, for all three separators.
C2_AsStated ==
    Called =>
        \A t \in TripleParts(date_str) :
            (Len(t.y) = 2 /\ IsDate(Century20 \o t.y, t.a, t.b)) =>
                /\ ret.changed
                /\ ret.result = Dashed(Century20 \o t.y, TwoDigits(t.a), TwoDigits(t.b))

\* C2, amended: every A<sep>B<sep>YY whose month-first reading (year 20YY)
\* is a date returns 20YY-AA-BB, changed, with '/' and '-'; with '.' it
\* does so unless A has two digits and the year-first reading (year 20AA,
\* month B, day YY) is a date, and then it returns 20AA-BB-YY, changed.
C2_TwoDigitYear ==
    Called =>
        \A t \in TripleParts(date_str) :
            (Len(t.y) = 2 /\ IsDate(Century20 \o t.y, t.a, t.b)) =>
                /\ ret.changed
                /\ ret.result =
                      IF YearFirstReading(t)
                      THEN Dashed(Century20 \o t.a, TwoDigits(t.b), t.y)
                      ELSE Dashed(Century20 \o t.y, TwoDigits(t.a), TwoDigits(t.b))

\* '03/04/25' gives '2025-03-04'
C2_Witness ==
    /\ pc = "called"
    /\ date_str = <<"0", "3", "/", "0", "4", "/", "2", "5">>
    /\ ret.changed
    /\ ret.result = <<"2", "0", "2", "5", "-", "0", "3", "-", "0", "4">>

\* C3: the third component names the format that matched: 'YYYY-MM-DD' for
\* ISO-shaped input, 'unknown' for unrecognised input, and for a converted
\* input the readable name of the matched format ('MM/DD/YYYY' for
\* '03/04/2025').
C3_FormatTag ==
    Called =>
        /\ fullmatch(ISO_DATE_PATTERN, date_str).ok => ret.tag = "YYYY-MM-DD"
        /\ ret.changed => ret.tag = patterns[ret.idx].name
        /\ date_str = <<"0", "3", "/", "0", "4", "/", "2", "0", "2", "5">> => ret.tag = "MM/DD/YYYY"

\* the day-first entries with a four-digit year
DayFirst4 ==
    {i \in 1..Len(patterns) :
        patterns[i].name \in {"DD/MM/YYYY", "DD-MM-YYYY", "DD.MM.YYYY"}}

\* C4 as stated: no input makes normalize_date_format return through a
\* day-first entry with a four-digit year.
C4_AsStated == Called => ret.idx \notin DayFirst4

\* C4, amended: the call returns through a day-first four-digit-year entry
\* exactly for the triples A<sep>B<sep>YYYY whose month-first reading is no
\* date and whose day-first reading is one, and it then returns YYYY-BB-AA.
C4_DayFirstReached ==
    Called =>
        /\ ret.idx \in DayFirst4 <=>
              \E t \in TripleParts(date_str) :
                  /\ Len(t.y) = 4
                  /\ ~IsDate(t.y, t.a, t.b)
                  /\ IsDate(t.y, t.b, t.a)
        /\ ret.idx \in DayFirst4 =>
              \E t \in TripleParts(date_str) :
                  ret.result = Dashed(t.y, TwoDigits(t.b), TwoDigits(t.a))

\* '31.12.2024' is returned by the DD.MM.YYYY entry
C4_Witness ==
    /\ pc = "called"
    /\ date_str = <<"3", "1", ".", "1", "2", ".", "2", "0", "2", "4">>
    /\ ret.idx \in DayFirst4
    /\ ret.result = <<"2", "0", "2", "4", "-", "1", "2", "-", "3", "1">>

\* s is four digits, '-', two digits, '-', two digits
IsoShaped(s) ==
    /\ Len(s) = 10
    /\ s[5] = "-"
    /\ s[8] = "-"
    /\ \A i \in {1, 2, 3, 4, 6, 7, 9, 10} : IsDigit(s[i])

\* C5: whenever changed is true the result is shaped YYYY-MM-DD and is a
\* date of the calendar.
C5_ChangedIsValidIso ==
    (Called /\ ret.changed) =>
        /\ IsoShaped(ret.result)
        /\ IsDate(SubSeq(ret.result, 1, 4), SubSeq(ret.result, 6, 7),
                  SubSeq(ret.result, 9, 10))

\* a leap day was accepted from a one-digit month
C5_Witness ==
    /\ pc = "called"
    /\ date_str = <<"2", "/", "2", "9", "/", "2", "0", "2", "4">>
    /\ ret.changed
    /\ ret.result = <<"2", "0", "2", "4", "-", "0", "2", "-", "2", "9">>

\* C6: a second call on the result of the first returns that same result
\* with changed false.
C6_Idempotent ==
    pc = "again" =>
        /\ ret2.result = ret.result
        /\ ret2.changed = FALSE

\* the second call ran on a result the first call had converted
C6_Witness ==
    /\ pc = "again"
    /\ ret.changed
    /\ ret.result # date_str
    /\ ret2.result = ret.result

\* s is ISO-shaped or some entry of `patterns` matches all of it
Recognised(s) ==
    \/ fullmatch(ISO_DATE_PATTERN, s).ok
    \/ \E i \in 1..Len(patterns) : fullmatch(patterns[i].items, s).ok

\* s begins or ends with a character no supported shape begins or ends with
Affixed(s) ==
    /\ s # <<>>
    /\ \/ s[1] \in {" ", "x"}
       \/ s[Len(s)] \in {" ", "\n", "x"}

\* C7 as stated: every input that matches no supported shape, the empty
\* string included, is returned unchanged with changed false and the tag
\* 'unknown'.
C7_AsStated ==
    (Called /\ ~Recognised(date_str)) => ret = UnknownReturn(date_str)

\* C7, amended: every non-empty input that matches no supported shape (a
\* supported shape with extra leading or trailing characters included) is
\* returned unchanged with changed false and the tag 'unknown'; the empty
\* string returns (None, False, None).
C7_UnknownPassthrough ==
    Called =>
        /\ (date_str # <<>> /\ (Affixed(date_str) \/ ~Recognised(date_str))) =>
              /\ ret.result = date_str
              /\ ret.changed = FALSE
              /\ ret.tag = "unknown"
        /\ date_str = <<>> =>
              /\ ret.result = None
              /\ ret.changed = FALSE
              /\ ret.tag = "<None>"

\* a supported shape with a trailing newline came back as unknown
C7_Witness ==
    /\ pc = "called"
    /\ date_str = <<"0", "3", "/", "0", "4", "/", "2", "0", "2", "5", "\n">>
    /\ ret.result = date_str
    /\ ret.tag = "unknown"


(***************************************************************************)
(* Properties of extract_metadata_block                                    *)
(***************************************************************************)
Parsed == bpc = "parsed"

\* a line that consists solely of the horizontal-rule marker
MarkerLine(l) == strip(l) = RuleMarker

\* the line numbers (from 0) of the marker lines of ls, in order
RECURSIVE MarkersFrom(_, _)
MarkersFrom(ls, n) ==
    IF n > Len(ls) THEN <<>>
    ELSE IF MarkerLine(ls[n]) THEN <<n - 1>> \o MarkersFrom(ls, n + 1)
    ELSE MarkersFrom(ls, n + 1)

Markers(ls) == MarkersFrom(ls, 1)

\* every line that begins with the marker is a marker line
NoLookalike(ls) ==
    \A n \in 1..Len(ls) : startswith(strip(ls[n]), RuleMarker) => MarkerLine(ls[n])

\* what the parser tracks besides the metadata
Position(st) == <<st.in_block, st.block_start, st.block_end>>

\* C8: blockStart is the index of the first marker line and blockEnd the
\* index of the second; a marker line after the second changes neither
\* index nor the parser state.  (Stated for the documents in which only
\* marker lines begin with '---'.)
C8_FirstRegionOnly ==
    (Parsed /\ NoLookalike(lines)) =>
        LET ms == Markers(lines) IN
        /\ blk.block_start = IF Len(ms) >= 1 THEN ms[1] ELSE NoneIdx
        /\ blk.block_end = IF Len(ms) >= 2 THEN ms[2] ELSE NoneIdx
        /\ \A k \in 3..Len(ms) :
              Position(ParserAfter(lines, ms[k] + 1)) =
              Position(ParserAfter(lines, ms[k]))

\* the metadata of the key/value lines among lines number from..to (from 0)
RECURSIVE Between(_, _, _)
Between(ls, from, to) ==
    IF to < from THEN <<>>
    ELSE LET t == strip(ls[to + 1])
         IN  IF startswith(t, ItemPrefix)
             THEN Collect([metadata |-> Between(ls, from, to - 1)], t).metadata
             ELSE Between(ls, from, to - 1)

\* C9: when both indices are set, the metadata map holds exactly the
\* key/value lines that lie strictly between blockStart and blockEnd
\* ('- **K:** V' gives K -> V, '- **K:**' gives K -> ''); other lines and
\* lines outside the block give nothing; the example document gives
\* {A: '1', B: ''}, blockStart 1, blockEnd 4.
C9_OnlyBlockLines ==
    Parsed =>
        /\ (blk.block_start # NoneIdx /\ blk.block_end # NoneIdx) =>
              blk.metadata = Between(lines, blk.block_start + 1, blk.block_end - 1)
        /\ lines = ExampleDoc =>
              /\ blk.block_start = 1
              /\ blk.block_end = 4
              /\ DOMAIN blk.metadata = {<<"A">>, <<"B">>}
              /\ blk.metadata[<<"A">>] = <<"1">>
              /\ blk.metadata[<<"B">>] = <<>>

\* C10: only a line that consists solely of '---' changes the parser state;
\* a line that begins with '---' and goes on ('----', '---|---') is an
\* ordinary line.
C10_ExactMarkerOnly ==
    Parsed =>
        \A n \in 1..Len(lines) :
            ~MarkerLine(lines[n]) =>
                Position(ParserAfter(lines, n)) = Position(ParserAfter(lines, n - 1))

\* C11: the two indices are either both null, or both set with
\* blockStart < blockEnd; the parser never returns a blockStart without a
\* blockEnd, nor a blockStart after the blockEnd.
C11_BothOrNeither ==
    Parsed =>
        \/ blk.block_start = NoneIdx /\ blk.block_end = NoneIdx
        \/ /\ blk.block_start # NoneIdx
           /\ blk.block_end # NoneIdx
           /\ blk.block_start < blk.block_end

(***************************************************************************)
(* The metadata block writer, update_metadata_block.                       *)
(***************************************************************************)
REQUIRED_FIELDS ==
    <<<<"D", "o", "c", "u", "m", "e", "n", "t", " ", "T", "i", "t", "l", "e">>,
      <<"A", "u", "t", "h", "o", "r">>,
      <<"C", "r", "e", "a", "t", "e", "d">>,
      <<"L", "a", "s", "t", " ", "U", "p", "d", "a", "t", "e", "d">>,
      <<"V", "e", "r", "s", "i", "o", "n">>,
      <<"D", "e", "s", "c", "r", "i", "p", "t", "i", "o", "n">>>>

\* d.get(key, default)
DictGet(d, key, default) == IF key \in DOMAIN d THEN d[key] ELSE default

\* what a call that raised TypeError gives
TypeError == <<<<"<TypeError>">>>>

OpenLine == <<"-", "-", "-", "\n">>
HeaderLine == <<"#", " ", "M", "e", "t", "a", "d", "a", "t", "a", "\n">>
CloseLine == <<"-", "-", "-", "\n">>

\* updates.get(field, metadata.get(field, ''))
FieldValue_metadataFirst(metadata, upd, field) ==
    DictGet(metadata, field, DictGet(upd, field, <<>>))

FieldValue(metadata, upd, field) ==
    DictGet(upd, field, DictGet(metadata, field, <<>>))

\* f"- **{field}:** {value}\n"
FieldLine(field, value) ==
    <<"-", " ", "*", "*">> \o field \o <<":", "*", "*", " ">> \o value \o <<"\n">>

\* new_block after the loop over REQUIRED_FIELDS
NewBlock(metadata, upd) ==
    <<OpenLine, HeaderLine>>
    \o [i \in 1..Len(REQUIRED_FIELDS) |->
          FieldLine(REQUIRED_FIELDS[i], FieldValue(metadata, upd, REQUIRED_FIELDS[i]))]
    \o <<CloseLine>>

\* lines[:block_start]; lines[:None] is the whole list
SliceTo(ls, block_start) ==
    IF block_start = NoneIdx THEN ls ELSE SubSeq(ls, 1, block_start)

\* lines[block_end+1:]
SliceFrom_inclusive(ls, block_end) == SubSeq(ls, block_end + 1, Len(ls))

SliceFrom(ls, block_end) == SubSeq(ls, block_end + 2, Len(ls))

\* None + 1 raises TypeError
update_metadata_block(ls, metadata, block_start, block_end, upd) ==
    IF block_end = NoneIdx THEN TypeError
    ELSE SliceTo(ls, block_start) \o NewBlock(metadata, upd) \o SliceFrom(ls, block_end)

(***************************************************************************)
(* The writer scenario: a document is parsed, its block is rewritten with  *)
(* some updates, the rewritten document is parsed again and rewritten      *)
(* again without updates.                                                  *)
(***************************************************************************)
\* the documents of the writer scenario have at most MaxDocLen lines
MaxDocLen == 4

RewriteLineKinds ==
    {<<"-", "-", "-", "\n">>,
     <<"x", "\n">>,
     <<"-", " ", "*", "*", "A", "u", "t", "h", "o", "r", ":", "*", "*", " ", "A", "n", "n", "\n">>,
     <<"-", " ", "*", "*", "V", "e", "r", "s", "i", "o", "n", ":", "*", "*", "\n">>,
     <<"-", " ", "*", "*", "E", "x", "t", "r", "a", ":", "*", "*", " ", "z", "\n">>}

\* text, a block with a required field and another key, text
RewriteExample ==
    <<<<"x", "\n">>,
      <<"-", "-", "-", "\n">>,
      <<"-", " ", "*", "*", "A", "u", "t", "h", "o", "r", ":", "*", "*", " ", "A", "n", "n", "\n">>,
      <<"-", " ", "*", "*", "E", "x", "t", "r", "a", ":", "*", "*", " ", "z", "\n">>,
      <<"-", "-", "-", "\n">>,
      <<"y", "\n">>>>

\* a block followed by a horizontal rule
RuleAfterBlock ==
    <<<<"-", "-", "-", "\n">>,
      <<"-", " ", "*", "*", "A", "u", "t", "h", "o", "r", ":", "*", "*", " ", "A", "n", "n", "\n">>,
      <<"-", "-", "-", "\n">>,
      <<"x", "\n">>,
      <<"-", "-", "-", "\n">>,
      <<"y", "\n">>>>

RECURSIVE RewriteDocsOfLen(_)
RewriteDocsOfLen(n) ==
    IF n = 0 THEN {<<>>}
    ELSE {Append(d, l) : d \in RewriteDocsOfLen(n - 1), l \in RewriteLineKinds}

RewriteDocs ==
    UNION {RewriteDocsOfLen(n) : n \in 0..MaxDocLen}
    \cup {RewriteExample, RuleAfterBlock}

AuthorBob == [k \in {<<"A", "u", "t", "h", "o", "r">>} |-> <<"B", "o", "b">>]

VersionAndDate ==
    [k \in {<<"V", "e", "r", "s", "i", "o", "n">>, <<"L", "a", "s", "t", " ", "U", "p", "d", "a", "t", "e", "d">>} |->
        IF k = <<"V", "e", "r", "s", "i", "o", "n">> THEN <<"1", ".", "1", ".", "0">> ELSE <<"2", "0", "2", "5", "-", "0", "3", "-", "0", "4">>]

UpdateSets == {<<>>, AuthorBob, VersionAndDate}

InitRewrite ==
    /\ IdleDate
    /\ IdleChangelog
    /\ IdleValidate
    /\ IdleProgram
    /\ lines \in RewriteDocs
    /\ blk = NoBlk
    /\ bpc = "input"
    /\ updates \in UpdateSets
    /\ new_lines = NoLines
    /\ blk2 = NoBlk
    /\ new_lines2 = NoLines

\* update_metadata_block(lines, metadata, block_start, block_end, updates)
Rewrite ==
    /\ bpc = "parsed"
    /\ new_lines' = update_metadata_block(lines, blk.metadata, blk.block_start,
                                          blk.block_end, updates)
    /\ bpc' = "rewritten"
    /\ UNCHANGED <<dateVars, lines, blk, updates, blk2, new_lines2,
                   changelogVars, validateVars, programVars>>

\* extract_metadata_block(new_lines)
Reparse ==
    /\ bpc = "rewritten"
    /\ new_lines # TypeError
    /\ blk2' = extract_metadata_block(new_lines)
    /\ bpc' = "reparsed"
    /\ UNCHANGED <<dateVars, lines, blk, updates, new_lines, new_lines2,
                   changelogVars, validateVars, programVars>>

\* update_metadata_block(new_lines, metadata, block_start, block_end, {})
RewriteAgain ==
    /\ bpc = "reparsed"
    /\ new_lines2' = update_metadata_block(new_lines, blk2.metadata, blk2.block_start,
                                           blk2.block_end, <<>>)
    /\ bpc' = "again"
    /\ UNCHANGED <<dateVars, lines, blk, updates, new_lines, blk2,
                   changelogVars, validateVars, programVars>>

NextRewrite == Extract \/ Rewrite \/ Reparse \/ RewriteAgain

SpecRewrite == InitRewrite /\ [][NextRewrite]_vars

(***************************************************************************)
(* Properties of update_metadata_block                                     *)
(***************************************************************************)
Rewritten == bpc \in {"rewritten", "reparsed", "again"}

\* the block of the document was found: both indices are set
BlockFound == blk.block_start # NoneIdx /\ blk.block_end # NoneIdx

\* the value the new block holds for field: the update, else the previous
\* metadata, else ''
NewValue(field) ==
    IF field \in DOMAIN updates THEN updates[field]
    ELSE IF field \in DOMAIN blk.metadata THEN blk.metadata[field]
    ELSE <<>>

\* C12: given blockStart <= blockEnd, both set, update_metadata_block
\* returns exactly lines[0:blockStart], then the new block, then
\* lines[blockEnd+1:]: the new block is the opening marker line, the
\* '# Metadata' header, one '- **F:** value' line per required field in the
\* configured order (value = updates[F], else metadata[F], else ''), and the
\* closing marker line; the lines outside the old block are kept in order
\* and no other metadata key gets a line.
C12_ExactRewrite ==
    (Rewritten /\ BlockFound /\ blk.block_start <= blk.block_end) =>
        LET s == blk.block_start
            e == blk.block_end
            n == Len(REQUIRED_FIELDS)
            rest == Len(lines) - e - 1
        IN  /\ Len(new_lines) = s + n + 3 + rest
            /\ \A i \in 1..s : new_lines[i] = lines[i]
            /\ new_lines[s + 1] = RuleMarker \o <<"\n">>
            /\ new_lines[s + 2] = <<"#", " ", "M", "e", "t", "a", "d", "a", "t", "a", "\n">>
            /\ \A k \in 1..n :
                  new_lines[s + 2 + k] =
                      ItemPrefix \o REQUIRED_FIELDS[k] \o KeyEndSpace
                      \o NewValue(REQUIRED_FIELDS[k]) \o <<"\n">>
            /\ new_lines[s + n + 3] = RuleMarker \o <<"\n">>
            /\ \A j \in 1..rest : new_lines[s + n + 3 + j] = lines[e + 1 + j]

\* the example document rewritten with Author -> Bob: the update wins over
\* the previous value, Extra gets no line, x and y stay
C12_Witness ==
    /\ bpc = "rewritten"
    /\ lines = RewriteExample
    /\ updates = AuthorBob
    /\ Len(new_lines) = 11
    /\ new_lines[1] = <<"x", "\n">>
    /\ new_lines[5] = <<"-", " ", "*", "*", "A", "u", "t", "h", "o", "r", ":", "*", "*", " ", "B", "o", "b", "\n">>
    /\ new_lines[8] = <<"-", " ", "*", "*", "V", "e", "r", "s", "i", "o", "n", ":", "*", "*", " ", "\n">>
    /\ new_lines[11] = <<"y", "\n">>

\* C13: for a document whose block was found, rewriting and parsing again
\* gives the same blockStart, blockEnd = blockStart + (number of required
\* fields) + 2, and for each required field the value updates[F], else the
\* previous metadata[F], else ''; with empty updates a second rewrite of the
\* rewritten document returns it unchanged.
C13_RoundTrip ==
    BlockFound =>
        /\ bpc \in {"reparsed", "again"} =>
              /\ blk2.block_start = blk.block_start
              /\ blk2.block_end = blk.block_start + Len(REQUIRED_FIELDS) + 2
              /\ \A k \in 1..Len(REQUIRED_FIELDS) :
                    /\ REQUIRED_FIELDS[k] \in DOMAIN blk2.metadata
                    /\ blk2.metadata[REQUIRED_FIELDS[k]] = NewValue(REQUIRED_FIELDS[k])
        /\ (bpc = "again" /\ updates = <<>>) => new_lines2 = new_lines

(***************************************************************************)
(* The embedded changelog section, extract_changelog_section_from_file.    *)
(* The file is its list of lines, as f.readlines() gives them.             *)
(***************************************************************************)
UpperCase ==
    <<"A", "B", "C", "D", "E", "F", "G", "H", "I", "J", "K", "L", "M",
      "N", "O", "P", "Q", "R", "S", "T", "U", "V", "W", "X", "Y", "Z">>

LowerCase ==
    <<"a", "b", "c", "d", "e", "f", "g", "h", "i", "j", "k", "l", "m",
      "n", "o", "p", "q", "r", "s", "t", "u", "v", "w", "x", "y", "z">>

lower_char(c) ==
    IF \E i \in 1..26 : UpperCase[i] = c
    THEN LowerCase[CHOOSE i \in 1..26 : UpperCase[i] = c]
    ELSE c

\* s.lower(), and what re.IGNORECASE compares
lower(s) == [i \in 1..Len(s) |-> lower_char(s[i])]

\* the number of consecutive characters c of s from position pos on
RECURSIVE CountFrom(_, _, _)
CountFrom(s, pos, c) ==
    IF pos <= Len(s) /\ s[pos] = c THEN 1 + CountFrom(s, pos + 1, c) ELSE 0

\* '$': the end of s, or just before a final newline
AtDollar(s, pos) == pos = Len(s) + 1 \/ (pos = Len(s) /\ s[pos] = "\n")

\* re.match(r'^#{lo,hi} +title *$', t, re.IGNORECASE), title in lower case
HeadingMatch(t, lo, hi, title) ==
    LET h == CountFrom(t, 1, "#")
        k == CountFrom(t, h + 1, " ")
        e == h + k + 1 + Len(title)
    IN  /\ h \in lo..hi
        /\ k >= 1
        /\ HasAt(lower(t), h + k + 1, title)
        /\ AtDollar(t, e + CountFrom(t, e, " "))

\* the three tests of the loop that looks for the section, on line.strip()
IsChangelogHeading(line) ==
    LET t == strip(line)
    IN  \/ HeadingMatch(t, 1, 4, <<"c", "h", "a", "n", "g", "e", "l", "o", "g">>)
        \/ HeadingMatch(t, 2, 2, <<"h", "i", "s", "t", "o", "r", "y">>)
        \/ HeadingMatch(t, 2, 2, <<"v", "e", "r", "s", "i", "o", "n", " ", "h", "i", "s", "t", "o", "r", "y">>)

\* changelog_start after the loop over the lines from number n (from 1) on
RECURSIVE ChangelogStartFrom(_, _)
ChangelogStartFrom(ls, n) ==
    IF n > Len(ls) THEN NoneIdx
    ELSE IF IsChangelogHeading(ls[n]) THEN n - 1
    ELSE ChangelogStartFrom(ls, n + 1)

\* re.match(r'^#{1,2} +[^\[]', line)
TopHeadingMatch(line) ==
    \E h \in 1..2 : \E k \in 1..Len(line) :
        /\ CountFrom(line, 1, "#") >= h
        /\ CountFrom(line, h + 1, " ") >= k
        /\ h + k + 1 <= Len(line)
        /\ line[h + k + 1] # "["

\* re.match(r'^## +\[', line)
VersionHeadingMatch(line) ==
    LET k == CountFrom(line, 3, " ")
    IN  /\ HasAt(line, 1, <<"#", "#">>)
        /\ k >= 1
        /\ 3 + k <= Len(line)
        /\ line[3 + k] = "["

\* the test that leaves the collecting loop
IsSectionEnd(line) == TopHeadingMatch(line) /\ ~VersionHeadingMatch(line)

\* line.rstrip('\n')
RECURSIVE rstrip_newline(_)
rstrip_newline(s) ==
    IF s # <<>> /\ s[Len(s)] = "\n" THEN rstrip_newline(SubSeq(s, 1, Len(s) - 1))
    ELSE s

\* changelog_lines after the loop over the lines from number n (from 1) on
RECURSIVE CollectedFrom(_, _)
CollectedFrom(ls, n) ==
    IF n > Len(ls) \/ IsSectionEnd(ls[n]) THEN <<>>
    ELSE <<rstrip_newline(ls[n])>> \o CollectedFrom(ls, n + 1)

\* '\n'.join(ss)
RECURSIVE join_newline(_)
join_newline(ss) ==
    IF ss = <<>> THEN <<>>
    ELSE IF Len(ss) = 1 THEN ss[1]
    ELSE ss[1] \o <<"\n">> \o join_newline(Tail(ss))

extract_changelog_section_from_file(ls) ==
    LET changelog_start == ChangelogStartFrom(ls, 1)
    IN  IF changelog_start = NoneIdx THEN None
        ELSE strip(join_newline(CollectedFrom(ls, changelog_start + 2)))

(***************************************************************************)
(* The section scenario: one call of extract_changelog_section_from_file   *)
(* on a file.                                                              *)
(***************************************************************************)
\* the files of the section scenario have at most MaxFileLines lines
MaxFileLines == 3

FileLineKinds ==
    {<<"#", " ", "T", "i", "t", "l", "e", "\n">>,
     <<"#", "#", " ", "N", "o", "t", "e", "s", "\n">>,
     <<"#", "#", " ", "C", "h", "a", "n", "g", "e", "l", "o", "g", "\n">>,
     <<"#", "#", "#", "#", " ", "c", "h", "a", "n", "g", "e", "l", "o", "g", "\n">>,
     <<"#", " ", "H", "i", "s", "t", "o", "r", "y", "\n">>,
     <<"#", "#", " ", "H", "I", "S", "T", "O", "R", "Y", "\n">>,
     <<"#", "#", "#", " ", "V", "e", "r", "s", "i", "o", "n", " ", "H", "i", "s", "t", "o", "r", "y", "\n">>,
     <<"#", "#", " ", "[", "1", ".", "0", ".", "0", "]", "\n">>,
     <<"#", " ", "[", "U", "n", "r", "e", "l", "e", "a", "s", "e", "d", "]", "\n">>,
     <<"#", "#", "#", " ", "A", "d", "d", "e", "d", "\n">>,
     <<"-", " ", "t", "e", "x", "t", "\n">>,
     <<"\n">>}

\* a changelog section between two top-level sections
SectionExample ==
    <<<<"#", " ", "T", "i", "t", "l", "e", "\n">>,
      <<"#", "#", " ", "C", "h", "a", "n", "g", "e", "l", "o", "g", "\n">>,
      <<"\n">>,
      <<"#", "#", " ", "[", "1", ".", "1", ".", "0", "]", "\n">>,
      <<"#", "#", "#", " ", "A", "d", "d", "e", "d", "\n">>,
      <<"-", " ", "t", "e", "x", "t", "\n">>,
      <<"\n">>,
      <<"#", "#", " ", "N", "o", "t", "e", "s", "\n">>,
      <<"-", " ", "m", "o", "r", "e", "\n">>>>

RECURSIVE FilesOfLen(_)
FilesOfLen(n) ==
    IF n = 0 THEN {<<>>}
    ELSE {Append(d, l) : d \in FilesOfLen(n - 1), l \in FileLineKinds}

Files == UNION {FilesOfLen(n) : n \in 0..MaxFileLines} \cup {SectionExample}

InitSection ==
    /\ IdleDate
    /\ IdleBlock
    /\ IdleRewrite
    /\ IdleValidate
    /\ IdleProgram
    /\ file_lines \in Files
    /\ section = NotYet
    /\ content = NotYet
    /\ latest = NotYet
    /\ filename = <<>>
    /\ metadata_version = <<>>
    /\ today = <<>>
    /\ chk = NoChk
    /\ cpc = "input"

\* extract_changelog_section_from_file(file_path)
ExtractSection ==
    /\ cpc = "input"
    /\ section' = extract_changelog_section_from_file(file_lines)
    /\ cpc' = "extracted"
    /\ UNCHANGED <<dateVars, blockVars, rewriteVars, validateVars, programVars, file_lines,
                   content, latest, filename, metadata_version, today, chk>>

NextSection == ExtractSection

SpecSection == InitSection /\ [][NextSection]_vars

(***************************************************************************)
(* Properties of extract_changelog_section_from_file                       *)
(***************************************************************************)
Extracted == cpc = "extracted"

SectionTitles == {<<"c", "h", "a", "n", "g", "e", "l", "o", "g">>, <<"h", "i", "s", "t", "o", "r", "y">>, <<"v", "e", "r", "s", "i", "o", "n", " ", "h", "i", "s", "t", "o", "r", "y">>}

\* a heading of level 1 to 4 whose text is one of the three titles, in any
\* letter case
TitledHeading(line) ==
    LET t == strip(line)
        h == CountFrom(t, 1, "#")
        k == CountFrom(t, h + 1, " ")
    IN  /\ h \in 1..4
        /\ k >= 1
        /\ lower(SubSeq(t, h + k + 1, Len(t))) \in SectionTitles

\* C14: the section heading is recognised at every level 1 to 4 and in any
\* letter case for each of 'Changelog', 'History' and 'Version History';
\* null is returned only when the file has no such heading.
C14_AllTitlesAllLevels ==
    Extracted =>
        (section = None <=> \A n \in 1..Len(file_lines) : ~TitledHeading(file_lines[n]))

\* the least of the numbers in idxs from n on, len + 1 when there is none
FirstFrom(idxs, n, len) ==
    LET cs == {i \in idxs : n <= i /\ i <= len} \cup {len + 1}
    IN  CHOOSE i \in cs : \A j \in cs : i <= j

\* a heading of level 1 or 2 that is not a version entry '## [...]'
ClosingHeading(line) ==
    LET h == CountFrom(line, 1, "#")
        k == CountFrom(line, h + 1, " ")
    IN  /\ h \in 1..2
        /\ k >= 1
        /\ h + k < Len(line)
        /\ ~(h = 2 /\ line[h + k + 1] = "[")

\* C15: after the heading the function collects every following line up
\* to, not including, the first later line that is a level-1 or level-2
\* heading and not a version entry '## [...]' (headings of level 3 and 4
\* and '## [...]' never end the section), and returns the collected text
\* trimmed.  (Stated for the files whose first titled heading is the one
\* the function finds.)
C15_SectionUpToNextTopHeading ==
    LET titled == {n \in 1..Len(file_lines) : TitledHeading(file_lines[n])}
        closing == {n \in 1..Len(file_lines) : ClosingHeading(file_lines[n])}
        first == FirstFrom(titled, 1, Len(file_lines))
        last == FirstFrom(closing, first + 1, Len(file_lines)) - 1
    IN  (Extracted /\ first <= Len(file_lines) /\ ChangelogStartFrom(file_lines, 1) = first - 1) =>
            section = strip(join_newline(
                [i \in 1..(last - first) |-> rstrip_newline(file_lines[first + i])]))

(***************************************************************************)
(* The latest version of a changelog,                                      *)
(* extract_latest_version_from_changelog.  The file is its text.           *)
(***************************************************************************)
\* [0-9]+\.[0-9]+\.[0-9]+ at position pos of s: whether it matches and the
\* position after the match
VersionAt(s, pos) ==
    LET a == DigitRun(s, pos, Len(s))
        b == DigitRun(s, pos + a + 1, Len(s))
        c == DigitRun(s, pos + a + b + 2, Len(s))
    IN  [ok |-> /\ a >= 1
                /\ HasAt(s, pos + a, <<".">>)
                /\ b >= 1
                /\ HasAt(s, pos + a + 1 + b, <<".">>)
                /\ c >= 1,
         end |-> pos + a + b + c + 2]

\* the three patterns: what precedes the group and what follows it
version_patterns ==
    <<[prefix |-> <<"#", "#", " ", "[">>, suffix |-> <<"]">>],
      [prefix |-> <<"[">>, suffix |-> <<"]">>],
      [prefix |-> <<"#", "#", " ">>, suffix |-> <<>>]>>

\* whether pattern p matches s at position pos
PatternAt(s, pos, p) ==
    /\ HasAt(s, pos, p.prefix)
    /\ VersionAt(s, pos + Len(p.prefix)).ok
    /\ HasAt(s, VersionAt(s, pos + Len(p.prefix)).end, p.suffix)

\* re.findall(pattern, content) from position pos on: the groups of the
\* matches, left to right, without overlap
RECURSIVE findall(_, _, _)
findall(p, s, pos) ==
    IF pos > Len(s) THEN <<>>
    ELSE IF PatternAt(s, pos, p)
    THEN LET from == pos + Len(p.prefix)
             to == VersionAt(s, from).end
         IN  <<SubSeq(s, from, to - 1)>> \o findall(p, s, to + Len(p.suffix))
    ELSE findall(p, s, pos + 1)

\* all_versions after the loop over the patterns
all_versions(s) ==
    findall(version_patterns[1], s, 1)
    \o findall(version_patterns[2], s, 1)
    \o findall(version_patterns[3], s, 1)

\* version.split('.') of a matched version
split_dots(v) ==
    LET a == DigitRun(v, 1, Len(v))
        b == DigitRun(v, a + 2, Len(v))
    IN  <<SubSeq(v, 1, a), SubSeq(v, a + 2, a + 1 + b), SubSeq(v, a + b + 3, Len(v))>>

\* tuple(map(int, version.split('.')))
version_key(v) == [i \in 1..3 |-> ToInt(split_dots(v)[i])]

\* x > y for tuples of three integers
TupleGreater(x, y) ==
    \/ x[1] > y[1]
    \/ x[1] = y[1] /\ x[2] > y[2]
    \/ x[1] = y[1] /\ x[2] = y[2] /\ x[3] > y[3]

\* the characters of a version in their order as text
CharRank(c) == IF c = "." THEN 0 ELSE DigitVal(c) + 1

\* v > w for strings
RECURSIVE TextGreater(_, _)
TextGreater(v, w) ==
    IF v = <<>> THEN FALSE
    ELSE IF w = <<>> THEN TRUE
    ELSE IF v[1] # w[1] THEN CharRank(v[1]) > CharRank(w[1])
    ELSE TextGreater(Tail(v), Tail(w))

\* the versions compared as text
Newer_lexical(v, best) == TextGreater(v, best)

\* max: key(v) > key(best)
Newer(v, best) == TupleGreater(version_key(v), version_key(best))

\* max(vs, key=version_key) over vs[n..], best the maximum so far: the
\* first of the maximal elements
RECURSIVE MaxFrom(_, _, _)
MaxFrom(vs, n, best) ==
    IF n > Len(vs) THEN best
    ELSE MaxFrom(vs, n + 1, IF Newer(vs[n], best) THEN vs[n] ELSE best)

\* a file that cannot be opened (content None) gives None
extract_latest_version_from_changelog(s) ==
    IF s = None THEN None
    ELSE IF all_versions(s) # <<>>
    THEN MaxFrom(all_versions(s), 2, all_versions(s)[1])
    ELSE None

(***************************************************************************)
(* The version scenario: one call of                                       *)
(* extract_latest_version_from_changelog on a changelog text.              *)
(***************************************************************************)
\* the changelogs of the version scenario have at most MaxEntries lines
MaxEntries == 3

EntryKinds ==
    {<<"#", "#", " ", "[", "1", ".", "9", ".", "9", "]", "\n">>,
     <<"#", "#", " ", "[", "1", ".", "1", "0", ".", "0", "]", "\n">>,
     <<"#", "#", " ", "[", "0", "1", ".", "1", "0", ".", "0", "]", "\n">>,
     <<"[", "2", ".", "0", ".", "0", "]", "\n">>,
     <<"#", "#", "#", " ", "[", "1", "0", ".", "0", ".", "0", "]", "\n">>,
     <<"#", "#", " ", "1", ".", "2", ".", "3", "\n">>,
     <<"#", "#", " ", "[", "1", ".", "2", "]", "\n">>,
     <<"s", "e", "e", " ", "9", ".", "9", ".", "9", "\n">>}

RECURSIVE TextsOfLen(_)
TextsOfLen(n) ==
    IF n = 0 THEN {<<>>}
    ELSE {t \o l : t \in TextsOfLen(n - 1), l \in EntryKinds}

Contents == UNION {TextsOfLen(n) : n \in 0..MaxEntries}

InitVersion ==
    /\ IdleDate
    /\ IdleBlock
    /\ IdleRewrite
    /\ IdleValidate
    /\ IdleProgram
    /\ file_lines = <<>>
    /\ section = NotYet
    /\ content \in Contents
    /\ latest = NotYet
    /\ filename = <<>>
    /\ metadata_version = <<>>
    /\ today = <<>>
    /\ chk = NoChk
    /\ cpc = "input"

\* extract_latest_version_from_changelog(changelog_path)
ExtractLatest ==
    /\ cpc = "input"
    /\ latest' = extract_latest_version_from_changelog(content)
    /\ cpc' = "latest"
    /\ UNCHANGED <<dateVars, blockVars, rewriteVars, validateVars, programVars, file_lines,
                   section, content, filename, metadata_version, today, chk>>

NextVersion == ExtractLatest

SpecVersion == InitVersion /\ [][NextVersion]_vars

(***************************************************************************)
(* Properties of extract_latest_version_from_changelog                     *)
(***************************************************************************)
\* t is X.Y.Z: three non-empty runs of digits separated by two dots
IsVersionText(t) ==
    LET dots == {i \in 1..Len(t) : t[i] = "."}
    IN  /\ Cardinality(dots) = 2
        /\ \A i \in 1..Len(t) : i \notin dots => IsDigit(t[i])
        /\ \A i \in dots : i > 1 /\ i < Len(t) /\ i + 1 \notin dots

\* the X.Y.Z tokens of s in the forms '[X.Y.Z]' (which includes
\* '## [X.Y.Z]') and '## X.Y.Z'
Tokens(s) ==
    {SubSeq(s, i, j) : <<i, j>> \in
        {p \in (1..Len(s)) \X (1..Len(s)) :
            /\ p[1] + 4 <= p[2]
            /\ IsDigit(s[p[1]])
            /\ IsVersionText(SubSeq(s, p[1], p[2]))
            /\ \/ /\ p[1] > 1 /\ s[p[1] - 1] = "["
                  /\ p[2] < Len(s) /\ s[p[2] + 1] = "]"
               \/ /\ p[1] > 3 /\ SubSeq(s, p[1] - 3, p[1] - 1) = <<"#", "#", " ">>
                  /\ ~(p[2] < Len(s) /\ IsDigit(s[p[2] + 1]))}}

\* the integer triple of a token
Triple(t) ==
    LET d1 == CHOOSE i \in 1..Len(t) : t[i] = "." /\ \A j \in 1..(i - 1) : t[j] # "."
        d2 == CHOOSE i \in (d1 + 1)..Len(t) : t[i] = "."
    IN  <<ToInt(SubSeq(t, 1, d1 - 1)), ToInt(SubSeq(t, d1 + 1, d2 - 1)),
          ToInt(SubSeq(t, d2 + 1, Len(t)))>>

\* x comes before y in the numeric order of triples
TripleLess(x, y) ==
    \E i \in 1..3 : x[i] < y[i] /\ \A j \in 1..(i - 1) : x[j] = y[j]

\* C17: the function returns one of the X.Y.Z tokens found in the forms
\* '## [X.Y.Z]', '[X.Y.Z]' and '## X.Y.Z', one whose integer triple is
\* maximal in numeric order, never string order ('1.10.0' is chosen over
\* '1.9.9'); it returns null when there is no token.
C17_NumericMaximum ==
    cpc = "latest" =>
        LET ts == Tokens(content) IN
        IF ts = {} THEN latest = None
        ELSE /\ latest \in ts
             /\ \A t \in ts : ~TripleLess(Triple(latest), Triple(t))

\* '1.10.0' is returned for a changelog that holds 1.9.9 and 1.10.0
C17_Witness ==
    /\ cpc = "latest"
    /\ content = <<"#", "#", " ", "[", "1", ".", "9", ".", "9", "]", "\n">> \o <<"#", "#", " ", "[", "1", ".", "1", "0", ".", "0", "]", "\n">> \o <<"#", "#", " ", "1", ".", "2", ".", "3", "\n">>
    /\ latest = <<"1", ".", "1", "0", ".", "0">>

(***************************************************************************)
(* The changelog preference and the consistency check,                     *)
(* determine_changelog_preference and check_changelog_consistency.  The    *)
(* directory is the text of its changelog file, None when it has none.     *)
(***************************************************************************)
\* bool(x) of an Optional[str]
Truthy(x) == x # None /\ x # <<>>

\* sub in s
Contains(s, sub) == \E pos \in 1..(Len(s) + 1) : HasAt(s, pos, sub)

\* find_changelog_file(directory): the path of the file, or None
find_changelog_file(changelog) ==
    IF changelog = None THEN None ELSE <<"C", "H", "A", "N", "G", "E", "L", "O", "G", ".", "m", "d">>

is_package_file(name) ==
    \E keyword \in {<<"_", "_", "i", "n", "i", "t", "_", "_", ".", "p", "y">>, <<"s", "e", "t", "u", "p", ".", "p", "y">>, <<"p", "y", "p", "r", "o", "j", "e", "c", "t", ".", "t", "o", "m", "l">>} :
        Contains(lower(name), keyword)

is_readme(name) == lower(name) \in {<<"r", "e", "a", "d", "m", "e", ".", "m", "d">>, <<"r", "e", "a", "d", "m", "e", ".", "t", "x", "t">>}

is_documentation(name) ==
    \E keyword \in {<<"d", "o", "c", "s", "/">>, <<"d", "o", "c", "u", "m", "e", "n", "t", "a", "t", "i", "o", "n">>, <<"g", "u", "i", "d", "e">>, <<"m", "a", "n", "u", "a", "l">>} :
        Contains(lower(name), keyword)

\* the decision with the general rule for a separate file tried before the
\* rule for documentation files
Preference_separateFirst(name, separate_changelog, embedded_changelog) ==
    IF is_package_file(name) THEN "separate"
    ELSE IF is_readme(name) /\ Truthy(separate_changelog) THEN "separate"
    ELSE IF is_readme(name) /\ Truthy(embedded_changelog) THEN "embedded"
    ELSE IF Truthy(separate_changelog) THEN "separate"
    ELSE IF is_documentation(name) /\ Truthy(embedded_changelog) THEN "embedded"
    ELSE IF Truthy(embedded_changelog) THEN "embedded"
    ELSE "both"

\* the if/elif chain of determine_changelog_preference
Preference(name, separate_changelog, embedded_changelog) ==
    IF is_package_file(name) THEN "separate"
    ELSE IF is_readme(name) /\ Truthy(separate_changelog) THEN "separate"
    ELSE IF is_readme(name) /\ Truthy(embedded_changelog) THEN "embedded"
    ELSE IF is_documentation(name) /\ Truthy(embedded_changelog) THEN "embedded"
    ELSE IF Truthy(separate_changelog) THEN "separate"
    ELSE IF Truthy(embedded_changelog) THEN "embedded"
    ELSE "both"

determine_changelog_preference(name, ls, changelog) ==
    Preference(name, find_changelog_file(changelog),
               extract_changelog_section_from_file(ls))

\* suggest_changelog_entry(version, changes_type), on the day `day`
suggest_changelog_entry(version, changes_type, day) ==
    <<"#", "#", " ", "[">> \o version \o <<"]", " ", "-", " ">> \o day \o
    (IF changes_type = "major"
     THEN <<"\n", "\n", "#", "#", "#", " ", "C", "h", "a", "n", "g", "e", "d", "\n", "-", " ", "B", "r", "e", "a", "k", "i", "n", "g", " ", "c", "h", "a", "n", "g", "e", "s", " ", "(", "d", "e", "s", "c", "r", "i", "b", "e", " ", "w", "h", "a", "t", " ", "c", "h", "a", "n", "g", "e", "d", ")", "\n", "\n", "#", "#", "#", " ", "A", "d", "d", "e", "d", "\n", "-", " ", "N", "e", "w", " ", "f", "e", "a", "t", "u", "r", "e", "s", " ", "(", "d", "e", "s", "c", "r", "i", "b", "e", " ", "a", "d", "d", "i", "t", "i", "o", "n", "s", ")", "\n", "\n", "#", "#", "#", " ", "R", "e", "m", "o", "v", "e", "d", "\n", "-", " ", "R", "e", "m", "o", "v", "e", "d", " ", "f", "e", "a", "t", "u", "r", "e", "s", " ", "(", "d", "e", "s", "c", "r", "i", "b", "e", " ", "r", "e", "m", "o", "v", "a", "l", "s", ")", "\n">>
     ELSE IF changes_type = "minor"
     THEN <<"\n", "\n", "#", "#", "#", " ", "A", "d", "d", "e", "d", "\n", "-", " ", "N", "e", "w", " ", "f", "e", "a", "t", "u", "r", "e", "s", " ", "(", "d", "e", "s", "c", "r", "i", "b", "e", " ", "a", "d", "d", "i", "t", "i", "o", "n", "s", ")", "\n", "\n", "#", "#", "#", " ", "C", "h", "a", "n", "g", "e", "d", "\n", "-", " ", "I", "m", "p", "r", "o", "v", "e", "m", "e", "n", "t", "s", " ", "(", "d", "e", "s", "c", "r", "i", "b", "e", " ", "c", "h", "a", "n", "g", "e", "s", ")", "\n">>
     ELSE <<"\n", "\n", "#", "#", "#", " ", "F", "i", "x", "e", "d", "\n", "-", " ", "B", "u", "g", " ", "f", "i", "x", "e", "s", " ", "(", "d", "e", "s", "c", "r", "i", "b", "e", " ", "f", "i", "x", "e", "s", ")", "\n", "\n", "#", "#", "#", " ", "C", "h", "a", "n", "g", "e", "d", "\n", "-", " ", "M", "i", "n", "o", "r", " ", "i", "m", "p", "r", "o", "v", "e", "m", "e", "n", "t", "s", " ", "(", "d", "e", "s", "c", "r", "i", "b", "e", " ", "c", "h", "a", "n", "g", "e", "s", ")", "\n">>)

\* the verdict with the comparison left out when the preference is 'separate'
Verdict_separateIgnored(preference, version, separate_version, embedded_version) ==
    IF preference = "separate" THEN TRUE
    ELSE IF preference = "embedded"
    THEN ~(Truthy(embedded_version) /\ version # embedded_version)
    ELSE ~(\/ Truthy(separate_version) /\ version # separate_version
           \/ Truthy(embedded_version) /\ version # embedded_version)

\* what check_changelog_consistency returns, by the preference
Verdict(preference, version, separate_version, embedded_version) ==
    IF preference = "separate"
    THEN ~(Truthy(separate_version) /\ version # separate_version)
    ELSE IF preference = "embedded"
    THEN ~(Truthy(embedded_version) /\ version # embedded_version)
    ELSE ~(\/ Truthy(separate_version) /\ version # separate_version
           \/ Truthy(embedded_version) /\ version # embedded_version)

\* the changelog entries that check_changelog_consistency prints
Suggestions(preference, version, separate_version, day) ==
    IF preference = "separate" /\ Truthy(separate_version) /\ version # separate_version
    THEN <<suggest_changelog_entry(version, "minor", day)>>
    ELSE IF preference = "separate" /\ ~Truthy(separate_version)
    THEN <<suggest_changelog_entry(version, "initial", day)>>
    ELSE <<>>

check_changelog_consistency(version, name, ls, changelog, day) ==
    LET preference == determine_changelog_preference(name, ls, changelog)
        separate_version ==
            IF Truthy(find_changelog_file(changelog))
            THEN extract_latest_version_from_changelog(changelog)
            ELSE None
        embedded_changelog_content == extract_changelog_section_from_file(ls)
        embedded_version ==
            IF Truthy(embedded_changelog_content)
            THEN extract_latest_version_from_changelog(embedded_changelog_content)
            ELSE None
    IN  [preference |-> preference,
         separate_version |-> separate_version,
         embedded_changelog_content |-> embedded_changelog_content,
         embedded_version |-> embedded_version,
         consistent |-> Verdict(preference, version, separate_version, embedded_version),
         printed |-> Suggestions(preference, version, separate_version, day)]

(***************************************************************************)
(* The consistency scenario: one call of check_changelog_consistency for a *)
(* file, a directory and a metadata version.                               *)
(***************************************************************************)
FileNames ==
    {<<"R", "E", "A", "D", "M", "E", ".", "m", "d">>, <<"r", "e", "a", "d", "m", "e", ".", "t", "x", "t">>, <<"s", "e", "t", "u", "p", ".", "p", "y">>, <<"g", "u", "i", "d", "e", "_", "s", "e", "t", "u", "p", ".", "p", "y">>,
     <<"U", "s", "e", "r", "_", "G", "u", "i", "d", "e", ".", "m", "d">>, <<"n", "o", "t", "e", "s", ".", "m", "d">>}

\* no changelog file; one version; two versions; a heading and no version
ChangelogFiles ==
    {None,
     <<"#", " ", "C", "h", "a", "n", "g", "e", "l", "o", "g", "\n", "#", "#", " ", "[", "1", ".", "0", ".", "0", "]", "\n", "-", " ", "f", "i", "r", "s", "t", "\n">>,
     <<"#", "#", " ", "[", "1", ".", "1", "0", ".", "0", "]", "\n", "#", "#", " ", "[", "1", ".", "9", ".", "9", "]", "\n">>,
     <<"#", " ", "C", "h", "a", "n", "g", "e", "l", "o", "g", "\n">>}

\* no section; a section with one version; a section with two versions and
\* a version after the section; a heading with nothing below it; a section
\* without a version; a level-1 'History' heading
Documents ==
    {<<<<"#", " ", "T", "i", "t", "l", "e", "\n">>, <<"t", "e", "x", "t", "\n">>>>,
     <<<<"#", " ", "T", "i", "t", "l", "e", "\n">>, <<"#", "#", " ", "C", "h", "a", "n", "g", "e", "l", "o", "g", "\n">>, <<"#", "#", " ", "[", "1", ".", "0", ".", "0", "]", "\n">>, <<"-", " ", "f", "i", "r", "s", "t", "\n">>>>,
     <<<<"#", "#", " ", "C", "h", "a", "n", "g", "e", "l", "o", "g", "\n">>, <<"#", "#", " ", "[", "1", ".", "1", "0", ".", "0", "]", "\n">>, <<"#", "#", " ", "[", "1", ".", "9", ".", "9", "]", "\n">>, <<"#", " ", "E", "n", "d", "\n">>, <<"#", "#", " ", "[", "3", ".", "0", ".", "0", "]", "\n">>>>,
     <<<<"#", " ", "T", "i", "t", "l", "e", "\n">>, <<"#", "#", " ", "C", "h", "a", "n", "g", "e", "l", "o", "g", "\n">>>>,
     <<<<"#", "#", " ", "H", "i", "s", "t", "o", "r", "y", "\n">>, <<"n", "o", "t", "h", "i", "n", "g", " ", "y", "e", "t", "\n">>>>,
     <<<<"#", " ", "H", "i", "s", "t", "o", "r", "y", "\n">>, <<"#", "#", " ", "[", "1", ".", "0", ".", "0", "]", "\n">>>>}

MetadataVersions == {<<"1", ".", "0", ".", "0">>, <<"1", ".", "1", "0", ".", "0">>, <<"0", ".", "1", ".", "0">>}

Days == {<<"2", "0", "2", "5", "-", "0", "3", "-", "0", "4">>}

InitConsistency ==
    /\ IdleDate
    /\ IdleBlock
    /\ IdleRewrite
    /\ IdleValidate
    /\ IdleProgram
    /\ file_lines \in Documents
    /\ section = NotYet
    /\ content \in ChangelogFiles
    /\ latest = NotYet
    /\ filename \in FileNames
    /\ metadata_version \in MetadataVersions
    /\ today \in Days
    /\ chk = NoChk
    /\ cpc = "input"

\* check_changelog_consistency(metadata_version, file_path, directory)
CheckConsistency ==
    /\ cpc = "input"
    /\ chk' = check_changelog_consistency(metadata_version, filename, file_lines,
                                          content, today)
    /\ cpc' = "checked"
    /\ UNCHANGED <<dateVars, blockVars, rewriteVars, validateVars, programVars, file_lines,
                   section, content, latest, filename, metadata_version, today>>

NextConsistency == CheckConsistency

SpecConsistency == InitConsistency /\ [][NextConsistency]_vars

(***************************************************************************)
(* Properties of determine_changelog_preference and                        *)
(* check_changelog_consistency                                             *)
(***************************************************************************)
Checked == cpc = "checked"

\* the role of the document, by its file name
Role(name) ==
    IF is_package_file(name) THEN "package-manifest"
    ELSE IF is_readme(name) THEN "README"
    ELSE IF is_documentation(name) THEN "documentation"
    ELSE "other"

\* the decision in the order of priority
Decision(role, separate, embedded) ==
    IF role = "package-manifest" THEN "separate"
    ELSE IF role = "README" /\ separate THEN "separate"
    ELSE IF role = "README" /\ embedded THEN "embedded"
    ELSE IF role = "documentation" /\ embedded THEN "embedded"
    ELSE IF separate THEN "separate"
    ELSE IF embedded THEN "embedded"
    ELSE "both"

C18_Verdict ==
    Checked =>
        LET differs(v) == v # None /\ v # metadata_version
            inconsistent ==
                \/ chk.preference = "separate" /\ differs(chk.separate_version)
                \/ chk.preference = "embedded" /\ differs(chk.embedded_version)
                \/ /\ chk.preference = "both"
                   /\ differs(chk.separate_version) \/ differs(chk.embedded_version)
        IN  chk.consistent = ~inconsistent

\* 'separate' with a differing separate version is inconsistent although
\* the embedded version is the metadata version
C18_Witness ==
    /\ Checked
    /\ chk.preference = "separate"
    /\ chk.separate_version = <<"1", ".", "1", "0", ".", "0">>
    /\ chk.embedded_version = metadata_version
    /\ ~chk.consistent

\* C19: every call of the consistency check produces a suggested changelog
\* entry '## [<version>] - <YYYY-MM-DD>' for the metadata version, whether
\* the verdict is consistent or not and for each of the three preferences.
C19_AlwaysSuggests ==
    Checked =>
        \E i \in 1..Len(chk.printed) :
            HasAt(chk.printed[i], 1, <<"#", "#", " ", "[">> \o metadata_version \o <<"]", " ", "-", " ">> \o today)

(***************************************************************************)
(* validate_metadata                                                       *)
(***************************************************************************)
\* the fields of the second loop
DateFields == <<<<"C", "r", "e", "a", "t", "e", "d">>, <<"L", "a", "s", "t", " ", "U", "p", "d", "a", "t", "e", "d">>>>

\* `field not in metadata or not metadata[field]`
MissingOrEmpty(md, field) == field \notin DOMAIN md \/ md[field] = <<>>

\* `date_field in metadata` and no re.fullmatch(ISO_DATE_PATTERN, ...)
NotIso(md, date_field) ==
    date_field \in DOMAIN md /\ ~fullmatch(ISO_DATE_PATTERN, md[date_field]).ok

\* f"Missing or empty field: {field}"
MissingError(field) == <<"M", "i", "s", "s", "i", "n", "g", " ", "o", "r", " ", "e", "m", "p", "t", "y", " ", "f", "i", "e", "l", "d", ":", " ">> \o field

\* f"{date_field} is not in ISO 8601 format (YYYY-MM-DD): {metadata[date_field]}"
DateError(date_field, value) ==
    date_field \o <<" ", "i", "s", " ", "n", "o", "t", " ", "i", "n", " ", "I", "S", "O", " ", "8", "6", "0", "1", " ", "f", "o", "r", "m", "a", "t", " ", "(", "Y", "Y", "Y", "Y", "-", "M", "M", "-", "D", "D", ")", ":", " ">> \o value

validate_metadata(md) ==
    LET Missing(field) == MissingOrEmpty(md, field)
        Bad(date_field) == NotIso(md, date_field)
        missing == SelectSeq(REQUIRED_FIELDS, Missing)
        bad == SelectSeq(DateFields, Bad)
    IN  [i \in 1..Len(missing) |-> MissingError(missing[i])]
        \o [i \in 1..Len(bad) |-> DateError(bad[i], md[bad[i]])]

(***************************************************************************)
(* The validation scenario: one call of validate_metadata on a metadata    *)
(* map.                                                                    *)
(***************************************************************************)
\* the field is not in the map
Absent == <<"<absent>">>

DateValues ==
    {Absent, <<>>, <<"2", "0", "2", "5", "-", "0", "3", "-", "0", "4">>, <<"2", "0", "2", "5", "-", "0", "2", "-", "3", "0">>, <<"2", "0", "2", "5", "-", "1", "3", "-", "0", "1">>, <<"0", "3", "/", "0", "4", "/", "2", "0", "2", "5">>}

\* the values tried for each required field, in the order of REQUIRED_FIELDS
FieldValues ==
    <<{Absent, <<"G", "u", "i", "d", "e">>},
      {<<>>, <<"A", "n", "n">>},
      DateValues,
      DateValues,
      {<<"1", ".", "0", ".", "0">>},
      {Absent, <<"t", "e", "x", "t">>}>>

\* the map that holds REQUIRED_FIELDS[i] -> vs[i] for the values not Absent
MapOf(vs) ==
    LET present == {i \in 1..Len(REQUIRED_FIELDS) : vs[i] # Absent}
    IN  [field \in {REQUIRED_FIELDS[i] : i \in present} |->
            vs[CHOOSE i \in present : REQUIRED_FIELDS[i] = field]]

Metadatas ==
    {MapOf(vs) : vs \in
        {f \in [1..Len(REQUIRED_FIELDS) -> UNION {FieldValues[i] : i \in 1..Len(FieldValues)}] :
            \A i \in 1..Len(REQUIRED_FIELDS) : f[i] \in FieldValues[i]}}

InitValidate ==
    /\ IdleDate
    /\ IdleProgram
    /\ IdleBlock
    /\ IdleRewrite
    /\ IdleChangelog
    /\ meta \in Metadatas
    /\ errors = <<>>
    /\ vpc = "input"

\* validate_metadata(metadata)
Validate ==
    /\ vpc = "input"
    /\ errors' = validate_metadata(meta)
    /\ vpc' = "validated"
    /\ UNCHANGED <<dateVars, blockVars, rewriteVars, changelogVars, meta, programVars>>

NextValidate == Validate

SpecValidate == InitValidate /\ [][NextValidate]_vars

(***************************************************************************)
(* Properties of validate_metadata                                         *)
(***************************************************************************)
Validated == vpc = "validated"

\* v is a date of the calendar written YYYY-MM-DD
CalendarIso(v) ==
    /\ IsoShaped(v)
    /\ IsDate(SubSeq(v, 1, 4), SubSeq(v, 6, 7), SubSeq(v, 9, 10))

\* C20: validate_metadata returns a list of errors that is empty exactly
\* when every required field is present and non-empty and 'Created' and
\* 'Last Updated' each hold a date of the calendar written YYYY-MM-DD; a
\* date field whose value is not ISO or not a date of the calendar
\* ('2025-02-30', '2025-13-01') gives an error entry for that field.
C20_ErrorsExactlyWhenInvalid ==
    Validated =>
        /\ errors = <<>> <=>
              /\ \A i \in 1..Len(REQUIRED_FIELDS) :
                    /\ REQUIRED_FIELDS[i] \in DOMAIN meta
                    /\ meta[REQUIRED_FIELDS[i]] # <<>>
              /\ \A i \in 1..Len(DateFields) : CalendarIso(meta[DateFields[i]])
        /\ \A i \in 1..Len(DateFields) :
              (DateFields[i] \in DOMAIN meta /\ ~CalendarIso(meta[DateFields[i]])) =>
                  \E e \in 1..Len(errors) : Contains(errors[e], DateFields[i])


(***************************************************************************)
(* main, single file mode: the helpers it calls.                           *)
(***************************************************************************)
\* DEFAULTS, the fallback of get_defaults
DEFAULTS ==
    LET vs == <<<<"U", "n", "k", "n", "o", "w", "n">>, <<"U", "n", "k", "n", "o", "w", "n">>, None, None, <<"0", ".", "1", ".", "0">>, <<"N", "o", " ", "d", "e", "s", "c", "r", "i", "p", "t", "i", "o", "n", " ", "p", "r", "o", "v", "i", "d", "e", "d", ".">>>>
    IN  [field \in {REQUIRED_FIELDS[i] : i \in 1..Len(REQUIRED_FIELDS)} |->
            vs[CHOOSE i \in 1..Len(REQUIRED_FIELDS) : REQUIRED_FIELDS[i] = field]]

\* re.match(r'#+\s+(.+)', t) on a stripped line: group(1), or no match
FirstHeadingMatch(t) ==
    LET hashes == CountFrom(t, 1, "#")
        spaces == SpaceRun(t, hashes + 1)
    IN  IF hashes >= 1 /\ spaces >= 1 /\ hashes + spaces < Len(t)
        THEN [ok |-> TRUE, groups |-> <<SubSeq(t, hashes + spaces + 1, Len(t))>>]
        ELSE NoMatch

\* the first heading after line index metadata_block_end, or None
extract_first_heading(ls, metadata_block_end) ==
    LET found == {i \in 1..Len(ls) :
                    /\ i - 1 > metadata_block_end
                    /\ FirstHeadingMatch(strip(ls[i])).ok}
    IN  IF found = {} THEN None
        ELSE LET first == CHOOSE i \in found : \A j \in found : i <= j
             IN  strip(FirstHeadingMatch(strip(ls[first])).groups[1])

\* the index of the last c in s, 0 when there is none
LastIndexOf(s, c) ==
    LET at == {i \in 1..Len(s) : s[i] = c}
    IN  IF at = {} THEN 0 ELSE CHOOSE i \in at : \A j \in at : j <= i

\* os.path.basename
basename(path) == SubSeq(path, LastIndexOf(path, "/") + 1, Len(path))

\* os.path.splitext(name)[0]: the extension starts at the last dot that
\* follows a character other than a dot
splitext_root(name) ==
    LET dot == LastIndexOf(name, ".")
    IN  IF dot > 0 /\ \E i \in 1..(dot - 1) : name[i] # "."
        THEN SubSeq(name, 1, dot - 1)
        ELSE name

\* s.replace(old, new) for one-character old and new
replace_char(s, old, new) == [i \in 1..Len(s) |-> IF s[i] = old THEN new ELSE s[i]]

upper_char(c) ==
    IF \E i \in 1..Len(LowerCase) : LowerCase[i] = c
    THEN UpperCase[CHOOSE i \in 1..Len(LowerCase) : LowerCase[i] = c]
    ELSE c

IsLetter(c) ==
    \/ \E i \in 1..Len(LowerCase) : LowerCase[i] = c
    \/ \E i \in 1..Len(UpperCase) : UpperCase[i] = c

\* s.title(): a letter is upper case after a character that is not a
\* letter, lower case after a letter
title(s) ==
    [i \in 1..Len(s) |->
        IF i > 1 /\ IsLetter(s[i - 1]) THEN lower_char(s[i]) ELSE upper_char(s[i])]

prettify_filename(path) ==
    title(replace_char(replace_char(splitext_root(basename(path)), "_", " "), "-", " "))

\* resp.strip().lower() in ('', 'y', 'yes')
SaysYes(resp) == lower(strip(resp)) \in {<<>>, <<"y">>, <<"y", "e", "s">>}

\* confirm_date_interpretation, resp being what get_input_with_timeout returned
confirm_date_interpretation(original_date, normalized_date, resp) ==
    IF resp = None THEN original_date
    ELSE IF SaysYes(resp) THEN normalized_date
    ELSE original_date

\* prompt_field, resp and confirm_resp being what the first and the second
\* get_input_with_timeout returned; prompts is the number of prompts shown
prompt_field(field, default, auto_mode, resp, confirm_resp) ==
    IF resp = None \/ strip(resp) = <<>> THEN [value |-> default, prompts |-> 1]
    ELSE LET user_input == strip(resp)
             r == normalize_date_format(user_input)
         IN  IF (\E i \in 1..Len(DateFields) : DateFields[i] = field) /\ r.changed
             THEN IF ~auto_mode
                  THEN [value |-> IF confirm_resp = None THEN user_input
                                  ELSE IF SaysYes(confirm_resp) THEN r.result
                                  ELSE user_input,
                        prompts |-> 2]
                  ELSE [value |-> r.result, prompts |-> 1]
             ELSE [value |-> user_input, prompts |-> 1]


(***************************************************************************)
(* main, single file mode: the sections of the run.  A section works on    *)
(* the record st of updates, the number of prompts shown, the fields whose *)
(* interpretation the user confirmed, and whether the run called sys.exit. *)
(***************************************************************************)
\* md_path
md_path == <<"d", "o", "c", "s", "/", "m", "y", "_", "n", "o", "t", "e", "s", ".", "m", "d">>

\* what get_input_with_timeout returns for prompt number n + 1
Answer(n) == script[(n % Len(script)) + 1]

\* doc_title_default
TitleDefault(ls, metadata, block_end) ==
    IF MissingOrEmpty(metadata, REQUIRED_FIELDS[1])
    THEN LET heading == extract_first_heading(ls, IF block_end # NoneIdx THEN block_end ELSE -1)
         IN  IF Truthy(heading) THEN heading ELSE prettify_filename(md_path)
    ELSE metadata[REQUIRED_FIELDS[1]]

\* one turn of the date format normalization loop
NormalizeField(metadata, st, date_field) ==
    IF ~MissingOrEmpty(metadata, date_field)
    THEN LET original_date == metadata[date_field]
             r == normalize_date_format(original_date)
             resp == Answer(st.asked)
             final_date == confirm_date_interpretation(original_date, r.result, resp)
         IN  IF ~r.changed THEN st
             ELSE IF flags.auto_mode
             THEN [st EXCEPT !.updates = DictSet(@, date_field, r.result)]
             ELSE IF flags.manual_mode THEN st
             ELSE [st EXCEPT !.asked = @ + 1,
                             !.confirmed = IF resp # None /\ SaysYes(resp)
                                           THEN @ \cup {date_field} ELSE @,
                             !.updates = IF final_date # original_date
                                         THEN DictSet(@, date_field, final_date)
                                         ELSE @]
    ELSE st

\* the early date check fills in manual mode too
EarlySkips_never == FALSE

\* `elif manual_mode: continue`
EarlySkips == flags.manual_mode

\* one turn of the early date check
EarlyField(metadata, st, date_field) ==
    IF st.exited THEN st
    ELSE IF \/ MissingOrEmpty(metadata, date_field)
            \/ ~fullmatch(ISO_DATE_PATTERN, metadata[date_field]).ok
    THEN IF flags.auto_mode
         THEN [st EXCEPT !.updates = DictSet(@, date_field, clock)]
         ELSE IF EarlySkips THEN st
         ELSE LET p == prompt_field(date_field, clock, flags.auto_mode,
                                    Answer(st.asked), Answer(st.asked + 1))
              IN  IF Truthy(p.value)
                  THEN [st EXCEPT !.asked = @ + p.prompts,
                                  !.updates = DictSet(@, date_field, p.value)]
                  ELSE [st EXCEPT !.asked = @ + p.prompts, !.exited = TRUE]
    ELSE st

\* the auto-update of 'Last Updated'
AutoUpdateField(metadata, st) ==
    LET field == DateFields[2]
    IN  IF flags.auto_update /\ ~flags.manual_mode
        THEN IF \/ field \notin DOMAIN metadata
                \/ ~fullmatch(ISO_DATE_PATTERN, metadata[field]).ok
                \/ (metadata[field] # clock /\ field \notin DOMAIN st.updates)
             THEN [st EXCEPT !.updates = DictSet(@, field, clock)]
             ELSE st
        ELSE st

\* `doc_title_default or DEFAULTS.get(field, '')`, `DEFAULTS.get(field, '')`
FieldDefault(field, doc_title_default) ==
    IF field = REQUIRED_FIELDS[1]
    THEN IF Truthy(doc_title_default) THEN doc_title_default
         ELSE DictGet(DEFAULTS, field, <<>>)
    ELSE DictGet(DEFAULTS, field, <<>>)

\* one turn of the loop over the other required fields
OtherField(metadata, doc_title_default, st, field) ==
    IF st.exited THEN st
    ELSE IF MissingOrEmpty(metadata, field)
    THEN LET default == FieldDefault(field, doc_title_default)
             p == prompt_field(field, default, flags.auto_mode,
                               Answer(st.asked), Answer(st.asked + 1))
         IN  IF flags.auto_mode
             THEN [st EXCEPT !.updates = DictSet(@, field, default)]
             ELSE IF flags.manual_mode THEN st
             ELSE IF Truthy(p.value)
                  THEN [st EXCEPT !.asked = @ + p.prompts,
                                  !.updates = DictSet(@, field, p.value)]
                  ELSE [st EXCEPT !.asked = @ + p.prompts, !.exited = TRUE]
    ELSE st

\* the record a section starts from
Section == [updates |-> loc.updates, asked |-> asked, confirmed |-> confirmed,
            exited |-> FALSE]

\* the variables after a section that ended with the record st
AfterSection(st, next) ==
    /\ loc' = [loc EXCEPT !.updates = st.updates]
    /\ asked' = st.asked
    /\ confirmed' = st.confirmed
    /\ mpc' = IF st.exited THEN "exit" ELSE next
    /\ exit_code' = IF st.exited THEN 1 ELSE exit_code


(***************************************************************************)
(* The single file scenario: a document, a mode and the lines the user     *)
(* will enter are chosen; the validator runs, rewrites the file and runs   *)
(* again, as main does.                                                    *)
(***************************************************************************)
\* the re-run is followed for at most MaxRuns runs
MaxRuns == 3

\* datetime.now().strftime('%Y-%m-%d')
ClockDate == <<"2", "0", "2", "5", "-", "0", "6", "-", "0", "1">>

RunFieldValues ==
    <<{Absent, <<"G", "u", "i", "d", "e">>},
      {<<"A", "n", "n">>},
      {Absent, <<"0", "3", "/", "0", "4", "/", "2", "0", "2", "5">>, <<"2", "0", "2", "5", "-", "0", "3", "-", "0", "4">>},
      {Absent, ClockDate, <<"2", "0", "2", "0", "-", "0", "1", "-", "0", "1">>, <<"s", "o", "o", "n">>},
      {<<"1", ".", "0", ".", "0">>},
      {<<"t", "e", "x", "t">>}>>

\* a metadata block that holds the values of vs that are not Absent
BlockOf(vs) ==
    LET present == SelectSeq([i \in 1..Len(REQUIRED_FIELDS) |-> i],
                             LAMBDA i : vs[i] # Absent)
    IN  <<OpenLine, HeaderLine>>
        \o [k \in 1..Len(present) |-> FieldLine(REQUIRED_FIELDS[present[k]], vs[present[k]])]
        \o <<CloseLine>>

RunBlocks ==
    {BlockOf(vs) : vs \in
        {f \in [1..Len(REQUIRED_FIELDS) -> UNION {RunFieldValues[i] : i \in 1..Len(RunFieldValues)}] :
            \A i \in 1..Len(REQUIRED_FIELDS) : f[i] \in RunFieldValues[i]}}

\* what follows the block: nothing, a third marker line, a third marker
\* line with a key/value line after it, a second block and a heading
RunTails ==
    {<<>>,
     <<<<"-", "-", "-", "\n">>>>,
     <<<<"x", "\n">>, <<"-", "-", "-", "\n">>, <<"-", " ", "*", "*", "L", "a", "s", "t", " ", "U", "p", "d", "a", "t", "e", "d", ":", "*", "*", " ", "2", "0", "2", "0", "-", "0", "1", "-", "0", "1", "\n">>>>,
     <<<<"-", "-", "-", "\n">>, <<"-", " ", "*", "*", "A", "u", "t", "h", "o", "r", ":", "*", "*", " ", "B", "o", "b", "\n">>, <<"-", "-", "-", "\n">>, <<"#", "#", " ", "M", "y", " ", "H", "e", "a", "d", "i", "n", "g", " ", "\n">>>>}

\* documents without a block: no marker line, one marker line
RunBare ==
    {<<<<"#", " ", "H", "e", "a", "d", "i", "n", "g", "\n">>, <<"t", "e", "x", "t", "\n">>>>,
     <<<<"-", "-", "-", "\n">>, <<"-", " ", "*", "*", "A", "u", "t", "h", "o", "r", ":", "*", "*", " ", "A", "n", "n", "\n">>>>}

RunDocs == {b \o t : b \in RunBlocks, t \in RunTails} \cup RunBare

\* '--auto', '--manual' or neither, with or without '--no-auto-update'
RunFlags ==
    {f \in [auto_mode : BOOLEAN, manual_mode : BOOLEAN, auto_update : BOOLEAN] :
        ~(f.auto_mode /\ f.manual_mode)}

\* what the user does at the prompts: lets each time out, presses Enter,
\* or answers a date and then Y in turn
Scripts ==
    {<<None>>, <<<<>>>>, <<<<" ", "0", "7", "/", "0", "8", "/", "2", "0", "2", "4", " ">>, <<"Y">>>>}

InitRun ==
    /\ IdleDate
    /\ IdleBlock
    /\ IdleRewrite
    /\ IdleChangelog
    /\ IdleValidate
    /\ IdleFix
    /\ IdlePrompt
    /\ md_file \in RunDocs
    /\ flags \in RunFlags
    /\ clock = ClockDate
    /\ script \in IF flags.auto_mode \/ flags.manual_mode THEN {<<None>>} ELSE Scripts
    /\ asked = 0
    /\ loc = NoLoc
    /\ confirmed = {}
    /\ mpc = "start"
    /\ runs = 1
    /\ writes = 0
    /\ exit_code = -1

idleVars == <<dateVars, blockVars, rewriteVars, changelogVars, validateVars, fixVars,
              promptVars>>

\* the file is read and parsed, the default title is chosen
StartRun ==
    /\ mpc = "start"
    /\ LET b == extract_metadata_block(md_file)
       IN  loc' = [metadata |-> b.metadata, block_start |-> b.block_start,
                   block_end |-> b.block_end, updates |-> <<>>,
                   doc_title_default |-> TitleDefault(md_file, b.metadata, b.block_end)]
    /\ confirmed' = {}
    /\ exit_code' = -1
    /\ mpc' = "normalize"
    /\ UNCHANGED <<idleVars, md_file, flags, clock, script, asked, runs, writes>>

\* the date format normalization loop
NormalizeDates ==
    /\ mpc = "normalize"
    /\ AfterSection(NormalizeField(loc.metadata,
                        NormalizeField(loc.metadata, Section, DateFields[1]),
                        DateFields[2]),
                    "early")
    /\ UNCHANGED <<idleVars, md_file, flags, clock, script, runs, writes>>

\* the early date check
EarlyDateCheck ==
    /\ mpc = "early"
    /\ AfterSection(EarlyField(loc.metadata,
                        EarlyField(loc.metadata, Section, DateFields[1]),
                        DateFields[2]),
                    "auto_update")
    /\ UNCHANGED <<idleVars, md_file, flags, clock, script, runs, writes>>

AutoUpdate ==
    /\ mpc = "auto_update"
    /\ AfterSection(AutoUpdateField(loc.metadata, Section), "fields")
    /\ UNCHANGED <<idleVars, md_file, flags, clock, script, runs, writes>>

\* the loop over the required fields other than the dates
OtherFields ==
    /\ mpc = "fields"
    /\ LET F(st, i) == OtherField(loc.metadata, loc.doc_title_default, st, REQUIRED_FIELDS[i])
       IN  AfterSection(F(F(F(F(Section, 1), 2), 5), 6), "update")
    /\ UNCHANGED <<idleVars, md_file, flags, clock, script, runs, writes>>

\* `if updates:` the block is rewritten and the file written, or the
\* TypeError of update_metadata_block is caught and the run exits
WriteBack ==
    /\ mpc = "update"
    /\ DOMAIN loc.updates # {}
    /\ LET new == update_metadata_block(md_file, loc.metadata, loc.block_start,
                                        loc.block_end, loc.updates)
       IN  IF new = TypeError
           THEN /\ mpc' = "exit"
                /\ exit_code' = 1
                /\ UNCHANGED <<md_file, writes>>
           ELSE /\ md_file' = new
                /\ writes' = writes + 1
                /\ mpc' = "written"
                /\ UNCHANGED exit_code
    /\ UNCHANGED <<idleVars, flags, clock, script, asked, loc, confirmed, runs>>

\* subprocess.run: the validator runs again on the file with the same flags
Rerun ==
    /\ mpc = "written"
    /\ runs < MaxRuns
    /\ runs' = runs + 1
    /\ mpc' = "start"
    /\ UNCHANGED <<idleVars, md_file, flags, clock, script, asked, loc, confirmed,
                   writes, exit_code>>

\* no updates: the full validation, and the exit status
ValidateRun ==
    /\ mpc = "update"
    /\ DOMAIN loc.updates = {}
    /\ exit_code' = IF validate_metadata(loc.metadata) # <<>> THEN 1 ELSE 0
    /\ mpc' = "exit"
    /\ UNCHANGED <<idleVars, md_file, flags, clock, script, asked, loc, confirmed,
                   runs, writes>>

NextRun ==
    \/ StartRun
    \/ NormalizeDates
    \/ EarlyDateCheck
    \/ AutoUpdate
    \/ OtherFields
    \/ WriteBack
    \/ Rerun
    \/ ValidateRun

SpecRun == InitRun /\ [][NextRun]_vars


\* the run has a 'Created' value that normalize_date_format recognises and
\* converts, and the mode converts it: auto mode, or interactive mode once
\* the user confirmed the interpretation
CreatedConverted ==
    /\ ~MissingOrEmpty(loc.metadata, DateFields[1])
    /\ normalize_date_format(loc.metadata[DateFields[1]]).changed
    /\ \/ flags.auto_mode
       \/ ~flags.manual_mode /\ DateFields[1] \in confirmed

\* C21: in a single-file run whose 'Created' holds a recognised non-ISO
\* date, in auto mode or in interactive mode after the user confirmed the
\* interpretation, the value pending for 'Created' after the normalization
\* loop, and written to the rewritten block, is the normalised form: no
\* later step of the run replaces it with today's date or with the answer
\* to another prompt.
C21_NormalisedDateWritten ==
    (mpc \in {"auto_update", "fields", "update", "written"} /\ CreatedConverted)
        => FieldValue(loc.metadata, loc.updates, DateFields[1])
               = normalize_date_format(loc.metadata[DateFields[1]]).result


\* C23: in --manual mode a single-file run only reports: whatever the
\* parsed metadata contains, no entry is ever added to the pending updates,
\* so the block is not rewritten, the file is never written and the
\* validator is not run again.
C23_ManualOnlyReports ==
    flags.manual_mode =>
        /\ DOMAIN loc.updates = {}
        /\ writes = 0
        /\ runs = 1
        /\ mpc # "written"

\* a manual run came to its end on a block with a convertible 'Created',
\* an outdated 'Last Updated' and no title, with the auto-update left on
C23_Witness ==
    /\ flags.manual_mode
    /\ flags.auto_update
    /\ mpc = "exit"
    /\ exit_code = 1
    /\ MissingOrEmpty(loc.metadata, REQUIRED_FIELDS[1])
    /\ ~MissingOrEmpty(loc.metadata, DateFields[1])
    /\ normalize_date_format(loc.metadata[DateFields[1]]).changed
    /\ ~MissingOrEmpty(loc.metadata, DateFields[2])
    /\ loc.metadata[DateFields[2]] # clock
    /\ fullmatch(ISO_DATE_PATTERN, loc.metadata[DateFields[2]]).ok
    /\ DOMAIN loc.updates = {}
    /\ writes = 0


\* the file has a marker line
HasMarkerLine == \E i \in 1..Len(md_file) : IsRuleLine(strip(md_file[i]))

\* the run rewrote the file and is about to start run number MaxRuns + 1:
\* the cycle is still going where the scenario stops following it
StillRewriting == mpc = "written" /\ runs = MaxRuns

\* C24: in auto mode the cycle of validating, rewriting and running again
\* ends for every document with marker lines: a run that follows a rewrite
\* finds nothing to update and stops, and the file stops growing.  An auto
\* run asks nothing and reads the same clock, so a cycle that ends does so
\* in its first runs: it is never still rewriting after MaxRuns runs.
C24_AutoCycleTerminates ==
    (flags.auto_mode /\ HasMarkerLine) => ~StillRewriting


(***************************************************************************)
(* normalize_changelog_dates and validate_changelog_date_format.  The      *)
(* content of the file is its sequence of lines, each without its newline: *)
(* no part of the two patterns matches a newline, so re.sub and re.findall *)
(* work line by line.                                                      *)
(***************************************************************************)
\* [0-9]+\.[0-9]+\.[0-9]+ at position pos of s: its length, 0 for no match
VersionRunAt(s, pos) ==
    LET a == DigitRun(s, pos, Len(s))
        b == DigitRun(s, pos + a + 1, Len(s))
        c == DigitRun(s, pos + a + b + 2, Len(s))
    IN  IF /\ a >= 1 /\ HasAt(s, pos + a, <<".">>)
           /\ b >= 1 /\ HasAt(s, pos + a + b + 1, <<".">>)
           /\ c >= 1
        THEN a + b + c + 2
        ELSE 0

\* r'## \[[0-9]+\.[0-9]+\.[0-9]+\] - ' at position pos of s: its length, 0
\* for no match
DatePrefixAt(s, pos) ==
    LET v == VersionRunAt(s, pos + 4)
    IN  IF /\ HasAt(s, pos, <<"#", "#", " ", "[">>)
           /\ v >= 1
           /\ HasAt(s, pos + 4 + v, <<"]", " ", "-", " ">>)
        THEN 4 + v + 4
        ELSE 0

\* the leftmost match of the pattern in the line: where it starts, the
\* prefix (group 1) and the rest of the line (group 2, '(.*)')
DateHeadingMatch(line) ==
    LET at == {p \in 1..Len(line) : DatePrefixAt(line, p) > 0}
    IN  IF at = {} THEN NoMatch
        ELSE LET p == CHOOSE q \in at : \A r \in at : q <= r
                 n == DatePrefixAt(line, p)
             IN  [ok |-> TRUE, start |-> p,
                  groups |-> <<SubSeq(line, p, p + n - 1),
                               SubSeq(line, p + n, Len(line))>>]

\* repr of None, or of a date string without quotes, backslashes and
\* control characters
repr_str(s) == IF s = None THEN <<"N", "o", "n", "e">> ELSE <<"'">> \o s \o <<"'">>

\* repr of the third element of the tuple: None, a name, or the text of the
\* pattern, which is kept as one element between its quotes
repr_tag(tag) ==
    CASE tag = "<None>" -> <<"N", "o", "n", "e">>
      [] tag = "YYYY-MM-DD" -> <<"'", "Y", "Y", "Y", "Y", "-", "M", "M", "-", "D", "D", "'">>
      [] tag = "unknown" -> <<"'", "u", "n", "k", "n", "o", "w", "n", "'">>
      [] OTHER -> <<"'", tag, "'">>

\* f"{normalized}" for the tuple normalize_date_format returned
format_tuple(r) ==
    <<"(">> \o repr_str(r.result) \o <<",", " ">>
    \o (IF r.changed THEN <<"T", "r", "u", "e">> ELSE <<"F", "a", "l", "s", "e">>) \o <<",", " ">>
    \o repr_tag(r.tag) \o <<")">>

\* `if normalized and normalized != original_date`: normalized is the tuple
\* that normalize_date_format returned, never empty and never equal to a
\* string
Replaces(r, original_date) == TRUE

\* f"{prefix}{normalized}" after the prefix
Replacement(r) == format_tuple(r)

\* replacer on the match found in a line, and the text before the match
ReplacedLine(line) ==
    LET m == DateHeadingMatch(line)
        original_date == strip(m.groups[2])
        r == normalize_date_format(original_date)
    IN  IF ~m.ok THEN line
        ELSE IF Replaces(r, original_date)
        THEN SubSeq(line, 1, m.start - 1) \o m.groups[1] \o Replacement(r)
        ELSE line

\* new_content
NewContent(ls) == [i \in 1..Len(ls) |-> ReplacedLine(ls[i])]

\* changes_made after re.sub
ChangesMade(ls) ==
    \E i \in 1..Len(ls) :
        LET m == DateHeadingMatch(ls[i])
            original_date == strip(m.groups[2])
        IN  m.ok /\ Replaces(normalize_date_format(original_date), original_date)

\* normalize_changelog_dates: what it returns and what the file holds after
normalize_changelog_dates(ls, fix) ==
    [changes_made |-> ChangesMade(ls),
     file |-> IF ChangesMade(ls) /\ fix THEN NewContent(ls) ELSE ls]

\* validate_changelog_date_format
validate_changelog_date_format(ls) ==
    \A i \in 1..Len(ls) :
        LET m == DateHeadingMatch(ls[i])
        IN  m.ok => fullmatch(ISO_DATE_PATTERN, strip(m.groups[2])).ok


(***************************************************************************)
(* The changelog date scenario: normalize_changelog_dates is called on a   *)
(* changelog, then validate_changelog_date_format on what the file holds.  *)
(***************************************************************************)
\* the changelogs of the scenario have at most MaxChangelogLines lines
MaxChangelogLines == 2

ChangelogLineKinds ==
    {<<"#", " ", "C", "h", "a", "n", "g", "e", "l", "o", "g">>,
     <<"-", " ", "f", "i", "x", "e", "d", " ", "a", " ", "b", "u", "g">>,
     <<"#", "#", " ", "[", "1", ".", "0", ".", "0", "]", " ", "-", " ", "2", "0", "2", "5", "-", "0", "3", "-", "0", "4">>,
     <<"#", "#", "#", " ", "[", "1", ".", "1", "0", ".", "0", "]", " ", "-", " ", " ", "0", "3", "/", "0", "4", "/", "2", "0", "2", "5", " ">>,
     <<"#", "#", " ", "[", "2", ".", "0", ".", "0", "]", " ", "-", " ", "s", "o", "o", "n">>,
     <<"#", "#", " ", "[", "2", ".", "1", ".", "0", "]", " ", "-", " ">>}

ChangelogsOfLen(n) ==
    {f \in [1..n -> ChangelogLineKinds] : TRUE}

Changelogs == UNION {ChangelogsOfLen(n) : n \in 0..MaxChangelogLines}

InitFix ==
    /\ IdleDate
    /\ IdleBlock
    /\ IdleRewrite
    /\ IdleChangelog
    /\ IdleValidate
    /\ IdleRun
    /\ IdlePrompt
    /\ changelog_file \in Changelogs
    /\ auto_fix \in BOOLEAN
    /\ old_content = <<>>
    /\ changes_made = <<>>
    /\ date_format_ok = <<>>
    /\ fpc = "start"

NormalizeChangelog ==
    /\ fpc = "start"
    /\ old_content' = changelog_file
    /\ changes_made' = <<normalize_changelog_dates(changelog_file, auto_fix).changes_made>>
    /\ changelog_file' = normalize_changelog_dates(changelog_file, auto_fix).file
    /\ fpc' = "normalized"
    /\ UNCHANGED <<dateVars, blockVars, rewriteVars, changelogVars, validateVars,
                   runVars, promptVars, auto_fix, date_format_ok>>

ValidateChangelog ==
    /\ fpc = "normalized"
    /\ date_format_ok' = <<validate_changelog_date_format(changelog_file)>>
    /\ fpc' = "validated"
    /\ UNCHANGED <<dateVars, blockVars, rewriteVars, changelogVars, validateVars,
                   runVars, promptVars, changelog_file, auto_fix, old_content,
                   changes_made>>

NextFix == NormalizeChangelog \/ ValidateChangelog

SpecFix == InitFix /\ [][NextFix]_vars

\* the date text of the heading in a line, None when the line has none
DateText(line) ==
    IF DateHeadingMatch(line).ok THEN strip(DateHeadingMatch(line).groups[2]) ELSE None

\* the line with the date text of its heading replaced by its normalisation
WithNormalisedDate(line) ==
    LET m == DateHeadingMatch(line)
        r == normalize_date_format(DateText(line))
    IN  IF m.ok /\ r.changed
        THEN SubSeq(line, 1, m.start - 1) \o m.groups[1] \o r.result
        ELSE line

\* some heading's date text differs from its normalisation
SomeDateDiffers(ls) ==
    \E i \in 1..Len(ls) :
        /\ DateText(ls[i]) # None
        /\ normalize_date_format(DateText(ls[i])).changed

\* every heading's date is in the ISO form or recognised
AllDatesRecognised(ls) ==
    \A i \in 1..Len(ls) :
        DateText(ls[i]) # None =>
            \/ fullmatch(ISO_DATE_PATTERN, DateText(ls[i])).ok
            \/ normalize_date_format(DateText(ls[i])).changed

\* C22: normalize_changelog_dates replaces the date text of each
\* '## [X.Y.Z] - <date>' heading by its YYYY-MM-DD normalisation and nothing
\* else (in the file when auto_fix is set), and returns True exactly when
\* some heading's date text differs from its normalisation: a changelog
\* whose dates are all ISO gives False and an unchanged file; and after a
\* call with auto_fix on recognised dates validate_changelog_date_format
\* accepts the file.
C22_DatesNormalised ==
    /\ fpc \in {"normalized", "validated"} =>
        /\ changes_made = <<SomeDateDiffers(old_content)>>
        /\ changelog_file =
              IF auto_fix
              THEN [i \in 1..Len(old_content) |-> WithNormalisedDate(old_content[i])]
              ELSE old_content
    /\ (fpc = "validated" /\ auto_fix /\ AllDatesRecognised(old_content)) =>
        date_format_ok = <<TRUE>>


(***************************************************************************)
(* TimeoutInput with the timeouts enabled.  Every prompt of the program    *)
(* (confirm_date_interpretation, prompt_field) makes a TimeoutInput object *)
(* and calls get_input_with_timeout once; the call starts a daemon thread  *)
(* that blocks in input() and waits for the event the thread sets.  The    *)
(* threads of all the objects read the same standard input.                *)
(***************************************************************************)
\* the program shows at most MaxPrompts prompts
MaxPrompts == 3

\* what the user types in answer to prompt number n
AnswerTo(n) == <<"a", "n", "s", "w", "e", "r", " ">> \o ToStr(n)

\* no value returned yet
NoResult == <<"<none yet>">>

\* __init__, and get_input_with_timeout up to the first wait: the thread is
\* started and blocks in input()
NewTimeoutInput ==
    [user_input |-> None, input_received |-> FALSE, reader |-> "blocked",
     waiting |-> "gentle_delay", reminded |-> FALSE, result |-> NoResult]

\* the number of the prompt that is shown, 0 when no call is waiting
Shown ==
    IF timeout_inputs # <<>> /\ timeout_inputs[Len(timeout_inputs)].waiting # "returned"
    THEN Len(timeout_inputs)
    ELSE 0

InitPrompt ==
    /\ IdleDate
    /\ IdleBlock
    /\ IdleRewrite
    /\ IdleChangelog
    /\ IdleValidate
    /\ IdleRun
    /\ IdleFix
    /\ timeout_inputs = <<NewTimeoutInput>>
    /\ stdin = <<>>
    /\ eof = FALSE
    /\ typed = 0

nonPromptVars == <<dateVars, blockVars, rewriteVars, changelogVars, validateVars,
                   runVars, fixVars>>

\* the program comes to its next prompt: a new object, a new thread
Prompt ==
    /\ Shown = 0
    /\ Len(timeout_inputs) < MaxPrompts
    /\ timeout_inputs' = Append(timeout_inputs, NewTimeoutInput)
    /\ UNCHANGED <<nonPromptVars, stdin, eof, typed>>

\* the user answers the prompt that is shown, once
UserTypes ==
    /\ Shown # 0
    /\ ~eof
    /\ typed < Shown
    /\ stdin' = Append(stdin, AnswerTo(Shown))
    /\ typed' = Shown
    /\ UNCHANGED <<nonPromptVars, timeout_inputs, eof>>

\* the user closes the input
UserCloses ==
    /\ ~eof
    /\ eof' = TRUE
    /\ UNCHANGED <<nonPromptVars, timeout_inputs, stdin, typed>>

\* _input_thread of object t: input() returns the next line, whichever
\* prompt it was typed for; the threads blocked in input() race for it
ReaderReads(t) ==
    /\ timeout_inputs[t].reader = "blocked"
    /\ stdin # <<>>
    /\ timeout_inputs' = [timeout_inputs EXCEPT ![t].user_input = Head(stdin),
                                                ![t].input_received = TRUE,
                                                ![t].reader = "done"]
    /\ stdin' = Tail(stdin)
    /\ UNCHANGED <<nonPromptVars, eof, typed>>

\* _input_thread of object t: input() raises EOFError
ReaderEnds(t) ==
    /\ timeout_inputs[t].reader = "blocked"
    /\ stdin = <<>>
    /\ eof
    /\ timeout_inputs' = [timeout_inputs EXCEPT ![t].input_received = TRUE,
                                                ![t].reader = "done"]
    /\ UNCHANGED <<nonPromptVars, stdin, eof, typed>>

\* input_received.wait returns True: return self.user_input
ReturnInput ==
    /\ Shown # 0
    /\ timeout_inputs[Shown].input_received
    /\ timeout_inputs' = [timeout_inputs EXCEPT ![Shown].waiting = "returned",
                                                ![Shown].result = timeout_inputs[Shown].user_input]
    /\ UNCHANGED <<nonPromptVars, stdin, eof, typed>>

\* input_received.wait(self.gentle_delay) returns False: the reminder.  A
\* wait lasts seconds: a line that was typed has been read by one of the
\* blocked threads before the wait expires
GentleDelayExpires ==
    /\ Shown # 0
    /\ timeout_inputs[Shown].waiting = "gentle_delay"
    /\ ~timeout_inputs[Shown].input_received
    /\ stdin = <<>>
    /\ timeout_inputs' = [timeout_inputs EXCEPT ![Shown].waiting = "final_timeout",
                                                ![Shown].reminded = TRUE]
    /\ UNCHANGED <<nonPromptVars, stdin, eof, typed>>

\* input_received.wait(self.final_timeout) returns False: return None
FinalTimeoutExpires ==
    /\ Shown # 0
    /\ timeout_inputs[Shown].waiting = "final_timeout"
    /\ ~timeout_inputs[Shown].input_received
    /\ stdin = <<>>
    /\ timeout_inputs' = [timeout_inputs EXCEPT ![Shown].waiting = "returned",
                                                ![Shown].result = None]
    /\ UNCHANGED <<nonPromptVars, stdin, eof, typed>>

Reads == \E t \in 1..Len(timeout_inputs) : ReaderReads(t)

Ends == \E t \in 1..Len(timeout_inputs) : ReaderEnds(t)

NextPrompt ==
    \/ Prompt
    \/ UserTypes
    \/ UserCloses
    \/ Reads
    \/ Ends
    \/ ReturnInput
    \/ GentleDelayExpires
    \/ FinalTimeoutExpires

SpecPrompt == InitPrompt /\ [][NextPrompt]_vars

\* C25: with the timeouts enabled, every line the user enters is delivered
\* to the get_input_with_timeout call of the prompt that was shown when it
\* was entered: the thread a timed-out call left behind never reads the
\* answer to a later prompt; and a call returns None only after its
\* reminder was printed and its final wait expired without input, or at
\* the end of the input.
C25_AnswersReachTheirPrompt ==
    \A t \in 1..Len(timeout_inputs) :
        /\ timeout_inputs[t].user_input \in {None, AnswerTo(t)}
        /\ timeout_inputs[t].result \notin {NoResult, None} =>
              timeout_inputs[t].result = AnswerTo(t)
        /\ timeout_inputs[t].result = None =>
              \/ timeout_inputs[t].reminded
              \/ eof

=============================================================================
